---- MODULE Spec2Model ----
(***************************************************************************)
(* Larry Navigator v2: the framework executor and its parallel runners,    *)
(* the framework consolidator, the framework recommender, the diagnosis    *)
(* consolidator, the research agent, the Minto and streaming analyzers and *)
(* the script runs of a session, modelled from src/agents/*.py,            *)
(* src/app.py, src/utils/session_state.py and src/config/frameworks.py.    *)
(*                                                                         *)
(* Python strings on which the code computes (framework ids and titles)    *)
(* are sequences of one-character strings, so that lower() and replace()   *)
(* are computed character by character.  Free text that the code only      *)
(* copies (insights, citation titles, messages) is an opaque string.       *)
(* A Python value that may be None, or a dict key that may be missing, is  *)
(* a record with a "kind" field.  A call that may raise returns an outcome *)
(* [raised, value].                                                        *)
(***************************************************************************)
EXTENDS Integers, Sequences, FiniteSets, TLC

VARIABLES
    \* ---- src/app.py framework batch (and execute_frameworks_parallel) ----
    pc,                         \* position of the runner
    runner,                     \* "app" (app.py loop) or "lib" (execute_frameworks_parallel)
    selected_ids,               \* the ids of the batch
    pyramid_analysis,           \* the context analysis handed to every executor call
    futures,                    \* id -> [state, outcome] of the submitted call
    yielded,                    \* ids already handed out by as_completed
    results,                    \* the runner's result list
    collected,                  \* history: the requested id behind each entry of results
    cancelled,                  \* app.py local: the loop saw the flag
    cancel_framework_analysis,  \* st.session_state.cancel_framework_analysis
    analyzing_frameworks,       \* st.session_state.analyzing_frameworks
    selected_frameworks,        \* st.session_state.selected_frameworks
    state_framework_results,    \* st.session_state.framework_state.framework_results
    consolidated_report,        \* st.session_state.framework_state.consolidated_report
    signalled_after,            \* history: the calls finished when cancellation was signalled
    batches,                    \* history: number of batches started
    \* ---- FrameworkConsolidator.consolidate: one call ----
    c_pc,                       \* "off", "called", "done" or "merged"
    c_framework_results,        \* argument framework_results
    c_pyramid,                  \* argument pyramid_analysis
    c_response,                 \* what the synthesis inference gives
    c_after,                    \* the list objects of framework_results after the call
    c_all_citations,            \* what a call of _merge_citations returned
    c_outcome,                  \* what the call returned or raised
    c_inference_calls,          \* history: inference calls made by the call
    \* ---- FrameworkRecommender.recommend: one call ----
    r_pc,                       \* "off", "called" or "done"
    r_pyramid,                  \* argument pyramid_analysis
    r_response,                 \* what the recommendation inference gives
    r_outcome,                  \* what the call returned or raised
    r_inference_calls,          \* history: inference calls made by the call
    \* ---- DiagnosisConsolidator.diagnose: one call ----
    d_pc,                       \* "off", "called", "classified" or "done"
    d_messages,                 \* len(conversation_history)
    d_responses,                \* what the four classifier inferences give
    d_classified,               \* the four classifier outputs
    d_consolidation,            \* what the consolidation inference gives
    d_outcome,                  \* what the call returned or raised
    d_inference_calls,          \* history: inference calls made by the call
    \* ---- FrameworkExecutor.execute: one call ----
    e_pc,                       \* "off", "called" or "done"
    e_framework_id,             \* argument framework_id
    e_pyramid,                  \* argument pyramid_analysis
    e_response,                 \* what the inference gives
    e_outcome,                  \* what the call returned or raised
    e_inference_calls,          \* history: inference calls made by the call
    \* ---- ResearchAgent.research: one call ----
    rs_pc,                      \* "off", "called", "analyzed", "queried", "searched", "done"
    rs_api_key,                 \* whether tavily_api_key is set
    rs_responses,               \* what the three inferences give
    rs_context,                 \* context_analysis
    rs_queries,                 \* queries
    rs_search_results,          \* search_results
    rs_external_calls,          \* history: requests sent to the search provider
    rs_outcome,                 \* what the call returned or raised
    \* ---- MintoAnalyzer.analyze: one call ----
    a_pc,                       \* "off", "called" or "done"
    a_conversation,             \* argument conversation
    a_response,                 \* what the inference gives
    a_outcome,                  \* what the call returned or raised
    a_inference_calls,          \* history: inference calls made by the call
    \* ---- StreamingPyramidAnalyzer.analyze_streaming: one run ----
    t_pc,                       \* "off", "start", "pyramid_stream", "parsed", "done" or "raised"
    t_responses,                \* what the two streamed inferences give
    t_streamed,                 \* chunks of the pyramid stream read so far
    t_pyramid,                  \* pyramid_result
    t_chunks,                   \* the StreamingChunks yielded so far
    t_final,                    \* data of the 'complete' chunk
    \* ---- src/app.py main(): the script runs of one browser session ----
    client,                     \* whether init_gemini_client() gave a client
    tavily_configured,          \* whether TAVILY_API_KEY is set
    session_state,              \* st.session_state
    last_turn                   \* history: what the last chat turn did

runnerVars == <<pc, runner, selected_ids, pyramid_analysis, futures, yielded, results,
                collected, cancelled, cancel_framework_analysis, analyzing_frameworks,
                selected_frameworks, state_framework_results, consolidated_report,
                signalled_after, batches>>

consVars == <<c_pc, c_framework_results, c_pyramid, c_response, c_after, c_all_citations,
              c_outcome, c_inference_calls>>

recVars == <<r_pc, r_pyramid, r_response, r_outcome, r_inference_calls>>

diagVars == <<d_pc, d_messages, d_responses, d_classified, d_consolidation, d_outcome,
              d_inference_calls>>

execVars == <<e_pc, e_framework_id, e_pyramid, e_response, e_outcome, e_inference_calls>>

resVars == <<rs_pc, rs_api_key, rs_responses, rs_context, rs_queries, rs_search_results,
             rs_external_calls, rs_outcome>>

anaVars == <<a_pc, a_conversation, a_response, a_outcome, a_inference_calls>>

streamVars == <<t_pc, t_responses, t_streamed, t_pyramid, t_chunks, t_final>>

sessionVars == <<client, tavily_configured, session_state, last_turn>>

agentVars == <<resVars, anaVars, streamVars, sessionVars>>

vars == <<runnerVars, consVars, recVars, diagVars, execVars, agentVars>>

-----------------------------------------------------------------------------
(* Strings the code computes on.                                           *)

Lower(c) ==
    CASE c = "A" -> "a" [] c = "B" -> "b" [] c = "C" -> "c" [] c = "D" -> "d"
      [] c = "E" -> "e" [] c = "F" -> "f" [] c = "G" -> "g" [] c = "H" -> "h"
      [] c = "I" -> "i" [] c = "J" -> "j" [] c = "K" -> "k" [] c = "L" -> "l"
      [] c = "M" -> "m" [] c = "N" -> "n" [] c = "O" -> "o" [] c = "P" -> "p"
      [] c = "Q" -> "q" [] c = "R" -> "r" [] c = "S" -> "s" [] c = "T" -> "t"
      [] c = "U" -> "u" [] c = "V" -> "v" [] c = "W" -> "w" [] c = "X" -> "x"
      [] c = "Y" -> "y" [] c = "Z" -> "z" [] OTHER -> c

\* str.lower()
StrLower(s) == [i \in DOMAIN s |-> Lower(s[i])]

\* str.replace(a, b) for one-character a and b
StrReplace(s, a, b) == [i \in DOMAIN s |-> IF s[i] = a THEN b ELSE s[i]]

jobs_to_be_done == <<"j","o","b","s","_","t","o","_","b","e","_","d","o","n","e">>
reverse_salience == <<"r","e","v","e","r","s","e","_","s","a","l","i","e","n","c","e">>
trending_to_absurd == <<"t","r","e","n","d","i","n","g","_","t","o","_","a","b","s","u","r","d">>
scenario_planning == <<"s","c","e","n","a","r","i","o","_","p","l","a","n","n","i","n","g">>
process_mapping == <<"p","r","o","c","e","s","s","_","m","a","p","p","i","n","g">>
six_thinking_hats == <<"s","i","x","_","t","h","i","n","k","i","n","g","_","h","a","t","s">>
root_cause_analysis == <<"r","o","o","t","_","c","a","u","s","e","_","a","n","a","l","y","s","i","s">>
macro_trends == <<"m","a","c","r","o","_","t","r","e","n","d","s">>
systems_thinking == <<"s","y","s","t","e","m","s","_","t","h","i","n","k","i","n","g">>
value_migration == <<"v","a","l","u","e","_","m","i","g","r","a","t","i","o","n">>
pws_triple_validation == <<"p","w","s","_","t","r","i","p","l","e","_","v","a","l","i","d","a","t","i","o","n">>
heart_framework == <<"h","e","a","r","t","_","f","r","a","m","e","w","o","r","k">>
mullins_model == <<"m","u","l","l","i","n","s","_","m","o","d","e","l">>
business_model_canvas == <<"b","u","s","i","n","e","s","s","_","m","o","d","e","l","_","c","a","n","v","a","s">>
lean_startup_mvp == <<"l","e","a","n","_","s","t","a","r","t","u","p","_","m","v","p">>
stakeholder_mapping == <<"s","t","a","k","e","h","o","l","d","e","r","_","m","a","p","p","i","n","g">>
\* ids that the recommender's fallback table names but the catalog does not hold
cynefin == <<"c","y","n","e","f","i","n">>
decision_trees == <<"d","e","c","i","s","i","o","n","_","t","r","e","e","s">>
\* literal ids the code writes into results
error_id == <<"e","r","r","o","r">>
unknown_id == <<"u","n","k","n","o","w","n">>
Error_title == <<"E","r","r","o","r">>
Unknown_title == <<"U","n","k","n","o","w","n">>

-----------------------------------------------------------------------------
(* src/config/frameworks.py: the static catalog.  Each entry keeps the     *)
(* title, the phase and the lengths of key_questions, output_structure and *)
(* required_concepts; their texts are only copied by the code.             *)

PHASE_1_FRAMEWORKS ==
   jobs_to_be_done :> [title |-> <<"J","o","b","s","-","T","o","-","B","e","-","D","o","n","e"," ","(","J","T","B","D",")">>, phase |-> "discovery", n_key_questions |-> 5, n_output_structure |-> 4, n_required_concepts |-> 5] @@
   reverse_salience :> [title |-> <<"R","e","v","e","r","s","e"," ","S","a","l","i","e","n","c","e">>, phase |-> "discovery", n_key_questions |-> 5, n_output_structure |-> 4, n_required_concepts |-> 5] @@
   trending_to_absurd :> [title |-> <<"T","r","e","n","d","i","n","g"," ","t","o"," ","t","h","e"," ","A","b","s","u","r","d">>, phase |-> "discovery", n_key_questions |-> 5, n_output_structure |-> 4, n_required_concepts |-> 5] @@
   scenario_planning :> [title |-> <<"S","c","e","n","a","r","i","o"," ","P","l","a","n","n","i","n","g">>, phase |-> "discovery", n_key_questions |-> 5, n_output_structure |-> 4, n_required_concepts |-> 5] @@
   process_mapping :> [title |-> <<"P","r","o","c","e","s","s"," ","M","a","p","p","i","n","g">>, phase |-> "discovery", n_key_questions |-> 5, n_output_structure |-> 4, n_required_concepts |-> 5] @@
   six_thinking_hats :> [title |-> <<"S","i","x"," ","T","h","i","n","k","i","n","g"," ","H","a","t","s">>, phase |-> "discovery", n_key_questions |-> 6, n_output_structure |-> 6, n_required_concepts |-> 6] @@
   root_cause_analysis :> [title |-> <<"R","o","o","t"," ","C","a","u","s","e"," ","A","n","a","l","y","s","i","s"," ","(","5"," ","W","h","y","s",")">>, phase |-> "discovery", n_key_questions |-> 5, n_output_structure |-> 4, n_required_concepts |-> 4] @@
   macro_trends :> [title |-> <<"M","a","c","r","o"," ","T","r","e","n","d","s"," ","A","n","a","l","y","s","i","s">>, phase |-> "discovery", n_key_questions |-> 6, n_output_structure |-> 6, n_required_concepts |-> 6] @@
   systems_thinking :> [title |-> <<"S","y","s","t","e","m","s"," ","T","h","i","n","k","i","n","g">>, phase |-> "discovery", n_key_questions |-> 5, n_output_structure |-> 5, n_required_concepts |-> 5] @@
   value_migration :> [title |-> <<"V","a","l","u","e"," ","M","i","g","r","a","t","i","o","n">>, phase |-> "discovery", n_key_questions |-> 5, n_output_structure |-> 4, n_required_concepts |-> 5]

PHASE_2_FRAMEWORKS ==
   pws_triple_validation :> [title |-> <<"P","W","S"," ","T","r","i","p","l","e"," ","V","a","l","i","d","a","t","i","o","n"," ","C","o","m","p","a","s","s">>, phase |-> "solution", n_key_questions |-> 5, n_output_structure |-> 5, n_required_concepts |-> 3] @@
   heart_framework :> [title |-> <<"H","E","A","R","T"," ","F","r","a","m","e","w","o","r","k"," ","(","P","i","t","c","h","i","n","g",")">>, phase |-> "solution", n_key_questions |-> 5, n_output_structure |-> 5, n_required_concepts |-> 5] @@
   mullins_model :> [title |-> <<"M","u","l","l","i","n","s"," ","7"," ","D","o","m","a","i","n","s"," ","M","o","d","e","l">>, phase |-> "solution", n_key_questions |-> 5, n_output_structure |-> 5, n_required_concepts |-> 4] @@
   business_model_canvas :> [title |-> <<"B","u","s","i","n","e","s","s"," ","M","o","d","e","l"," ","C","a","n","v","a","s">>, phase |-> "solution", n_key_questions |-> 9, n_output_structure |-> 9, n_required_concepts |-> 9] @@
   lean_startup_mvp :> [title |-> <<"L","e","a","n"," ","S","t","a","r","t","u","p"," ","/"," ","M","V","P">>, phase |-> "solution", n_key_questions |-> 5, n_output_structure |-> 5, n_required_concepts |-> 5] @@
   stakeholder_mapping :> [title |-> <<"S","t","a","k","e","h","o","l","d","e","r"," ","M","a","p","p","i","n","g">>, phase |-> "solution", n_key_questions |-> 5, n_output_structure |-> 4, n_required_concepts |-> 5]

ALL_FRAMEWORKS == PHASE_1_FRAMEWORKS @@ PHASE_2_FRAMEWORKS

\* The texts of a framework's key questions, by position.
KeyQuestionTexts == <<"kq1", "kq2", "kq3", "kq4", "kq5", "kq6", "kq7", "kq8", "kq9">>

\* Python s[:n]
Take(s, n) == SubSeq(s, 1, IF Len(s) < n THEN Len(s) ELSE n)

key_questions(framework) == Take(KeyQuestionTexts, framework.n_key_questions)

-----------------------------------------------------------------------------
(* Values.                                                                 *)

\* An optional value: <<>> is "no value" (None, or the key is missing).
None == <<>>
Some(v) == <<v>>

\* The "framework_analysis" entry of a result: a dict, None, or no such key.
NoAnalysis(kind) ==
    [kind |-> kind, summary |-> "", key_questions_answered |-> <<>>,
     framework_output |-> <<>>, insights |-> <<>>, opportunities |-> <<>>,
     risks_or_gaps |-> <<>>, recommended_next_steps |-> <<>>]

\* The value an outcome carries when the call raised.
NoResult ==
    [framework_id |-> <<>>, framework_title |-> <<>>,
     framework_analysis |-> NoAnalysis("absent"), citations |-> <<>>,
     confidence_level |-> None, error |-> None, _error |-> None]

Returned(v) == [raised |-> FALSE, exception |-> "", value |-> v]
Raised(e, v) == [raised |-> TRUE, exception |-> e, value |-> v]

-----------------------------------------------------------------------------
(* src/agents/framework_executor.py                                        *)

\* _extract_citations: one citation per distinct chunk title, the first chunk
\* of a title giving the text (the text is cut to 300 characters there; it is
\* an opaque token here).
_extract_citations(chunks) ==
    LET F[i \in 0..Len(chunks)] ==
          IF i = 0 THEN <<>>
          ELSE IF \E j \in 1..(i-1) : chunks[j].title = chunks[i].title
               THEN F[i-1]
               ELSE Append(F[i-1], [title |-> chunks[i].title, text |-> chunks[i].text,
                                    source |-> "PWS Knowledge Base",
                                    used_by_frameworks |-> None])
    IN F[Len(chunks)]

\* _error_response with a message that does not name the id
ErrorResponseWithoutId(framework_id) ==
    [framework_id |-> error_id, framework_title |-> Error_title,
     framework_analysis |-> NoAnalysis("none"), citations |-> <<>>,
     confidence_level |-> None,
     error |-> Some([msg |-> "not found", id |-> <<>>]), _error |-> None]

\* _error_response
_error_response(framework_id) ==
    [framework_id |-> error_id, framework_title |-> Error_title,
     framework_analysis |-> NoAnalysis("none"), citations |-> <<>>,
     confidence_level |-> None,
     error |-> Some([msg |-> "not found", id |-> framework_id]), _error |-> None]

\* framework.title.lower().replace(" ", "_").replace("-", "_")
FallbackFrameworkId(framework) ==
    StrReplace(StrReplace(StrLower(framework.title), " ", "_"), "-", "_")

\* _fallback_execution without the "_error" entry
FallbackExecutionUntagged(framework, e) ==
    [framework_id |-> FallbackFrameworkId(framework),
     framework_title |-> framework.title,
     framework_analysis |->
        [kind |-> "dict",
         summary |-> "Applying the framework to analyze the problem context.",
         key_questions_answered |->
            [i \in 1..Len(Take(key_questions(framework), 3)) |->
                [question |-> key_questions(framework)[i],
                 answer |-> "Analysis pending - requires deeper exploration"]],
         framework_output |->
            [k \in 1..framework.n_output_structure |-> "To be determined"],
         insights |-> <<"The framework suggests examining: when_to_use">>,
         opportunities |-> <<"Further analysis recommended">>,
         risks_or_gaps |-> <<"Incomplete information for full analysis">>,
         recommended_next_steps |-> Take(key_questions(framework), 2)],
     citations |-> <<>>,
     confidence_level |-> Some(4),
     error |-> None, _error |-> None]

\* _fallback_execution
_fallback_execution(framework, e) ==
    [framework_id |-> FallbackFrameworkId(framework),
     framework_title |-> framework.title,
     framework_analysis |->
        [kind |-> "dict",
         summary |-> "Applying the framework to analyze the problem context.",
         key_questions_answered |->
            [i \in 1..Len(Take(key_questions(framework), 3)) |->
                [question |-> key_questions(framework)[i],
                 answer |-> "Analysis pending - requires deeper exploration"]],
         framework_output |->
            [k \in 1..framework.n_output_structure |-> "To be determined"],
         insights |-> <<"The framework suggests examining: when_to_use">>,
         opportunities |-> <<"Further analysis recommended">>,
         risks_or_gaps |-> <<"Incomplete information for full analysis">>,
         recommended_next_steps |-> Take(key_questions(framework), 2)],
     citations |-> <<>>,
     confidence_level |-> Some(4),
     error |-> None, _error |-> Some(e)]

\* FrameworkExecutor.execute.  response is what the inference call gives:
\* kind "error" (the call raised, or its text is not JSON, with the exception
\* text), "non_object" (JSON, but not an object) or "object" (with the
\* object's framework_analysis and confidence_level and the grounding chunks).
\* The prompt is built outside the try block; it calls .get on pyramid["scqa"],
\* which raises when that entry is present and not a mapping.
execute(framework_id, pyramid, response) ==
    IF framework_id \notin DOMAIN ALL_FRAMEWORKS
    THEN Returned(_error_response(framework_id))
    ELSE LET framework == ALL_FRAMEWORKS[framework_id] IN
         IF pyramid.scqa = "not_mapping"
         THEN Raised("AttributeError", NoResult)
         ELSE CASE response.kind = "error" ->
                     Returned(_fallback_execution(framework, response.exception))
                [] response.kind = "non_object" ->
                     Returned(_fallback_execution(framework, "TypeError"))
                [] OTHER ->
                     Returned([framework_id |-> framework_id,
                               framework_title |-> framework.title,
                               framework_analysis |-> response.framework_analysis,
                               citations |-> _extract_citations(response.grounding_chunks),
                               confidence_level |-> response.confidence_level,
                               error |-> None, _error |-> None])

\* The inference calls of one execute: none when the id is not in the catalog
\* (return of line 44) or when building the prompt raises, else one.
ExecuteInferenceCalls(framework_id, pyramid) ==
    IF framework_id \in DOMAIN ALL_FRAMEWORKS /\ pyramid.scqa # "not_mapping" THEN 1 ELSE 0

\* The placeholder execute_frameworks_parallel appends for a call that raised.
FailurePlaceholder(framework_id, e) ==
    [NoResult EXCEPT !.framework_id = framework_id,
                     !.framework_analysis = NoAnalysis("none"),
                     !.error = Some([msg |-> e, id |-> framework_id])]

\* The entry execute_frameworks_parallel appends for id f (lines 286-296)
RunnerResult(f, pyramid, response) ==
    LET outcome == execute(f, pyramid, response) IN
    IF outcome.raised THEN FailurePlaceholder(f, outcome.exception)
    ELSE outcome.value

-----------------------------------------------------------------------------
(* src/agents/framework_consolidator.py                                    *)

Multiple_title == <<"M","u","l","t","i","p","l","e">>
multiple_id == <<"m","u","l","t","i","p","l","e">>

\* dict.get(key, default) for an optional value
GetOr(opt, default) == IF opt = None THEN default ELSE opt[1]

\* result.get("framework_title", default): an empty title stands for a result
\* without that key (the runner's failure placeholder has none).
TitleOr(result, default) ==
    IF result.framework_title = <<>> THEN default ELSE result.framework_title

\* The (citation, framework id) pairs in the order the two nested loops of
\* _merge_citations visit them.
RECURSIVE CitationVisits(_)
CitationVisits(framework_results) ==
    IF framework_results = <<>> THEN <<>>
    ELSE LET result == Head(framework_results) IN
         [i \in 1..Len(result.citations) |->
             [citation |-> result.citations[i], framework_id |-> result.framework_id]]
         \o CitationVisits(Tail(framework_results))

\* MergeVisit without the elif branch: a later result that holds a title
\* already seen is not added to used_by_frameworks.
MergeVisitFirstOnly(all_citations, visit) ==
    LET title == visit.citation.title
        seen  == \E i \in 1..Len(all_citations) : all_citations[i].title = title
    IN  IF title # "" /\ ~seen
        THEN Append(all_citations,
                    [visit.citation EXCEPT !.used_by_frameworks = Some(<<visit.framework_id>>)])
        ELSE all_citations

\* One iteration of the inner loop of _merge_citations.  all_citations holds
\* the very citation objects of the inputs, so the titles in it are seen_titles.
MergeVisit(all_citations, visit) ==
    LET title == visit.citation.title
        seen  == \E i \in 1..Len(all_citations) : all_citations[i].title = title
    IN  IF title # "" /\ ~seen
        THEN Append(all_citations,
                    [visit.citation EXCEPT !.used_by_frameworks = Some(<<visit.framework_id>>)])
        ELSE IF seen
        THEN LET i == CHOOSE k \in 1..Len(all_citations) :
                        /\ all_citations[k].title = title
                        /\ \A j \in 1..(k-1) : all_citations[j].title # title
             IN  [all_citations EXCEPT ![i].used_by_frameworks =
                     Some(Append(GetOr(all_citations[i].used_by_frameworks, <<>>),
                                 visit.framework_id))]
        ELSE all_citations

\* _merge_citations
_merge_citations(framework_results) ==
    LET visits == CitationVisits(framework_results)
        F[i \in 0..Len(visits)] ==
            IF i = 0 THEN <<>> ELSE MergeVisit(F[i-1], visits[i])
    IN  F[Len(visits)]

NoRecommendation(text) == [text |-> text, title |-> <<>>, step |-> ""]

\* An empty report that names no next thing to do
EmptyConsolidationSilent ==
    [has_consolidated_report |-> TRUE,
     executive_summary |-> "No frameworks were selected for analysis.",
     top_insights |-> <<>>, convergence_points |-> <<>>, divergence_points |-> <<>>,
     opportunities |-> <<>>, risks_and_gaps |-> <<>>,
     unified_recommendation |-> [text |-> "", title |-> <<>>, step |-> ""],
     next_steps |-> <<>>, framework_contributions |-> <<>>, all_citations |-> <<>>,
     overall_confidence |-> <<0>>, frameworks_used |-> 0, total_insights |-> 0,
     _error |-> <<>>]

\* _empty_consolidation
_empty_consolidation ==
    [has_consolidated_report |-> TRUE,
     executive_summary |-> "No frameworks were selected for analysis.",
     top_insights |-> <<>>, convergence_points |-> <<>>, divergence_points |-> <<>>,
     opportunities |-> <<>>, risks_and_gaps |-> <<>>,
     unified_recommendation |->
        NoRecommendation("Select one or more frameworks to analyze your problem."),
     next_steps |-> <<>>, framework_contributions |-> <<>>, all_citations |-> <<>>,
     overall_confidence |-> Some(0), frameworks_used |-> 0, total_insights |-> 0,
     _error |-> None]

\* The value an outcome carries when consolidate raised.
NoReport == [_empty_consolidation EXCEPT !.has_consolidated_report = FALSE,
                                         !.executive_summary = "",
                                         !.unified_recommendation = NoRecommendation(""),
                                         !.overall_confidence = None]

\* _single_framework_report.  result.get("framework_analysis", {}) is {} when
\* the key is missing and None when the entry is None; .get on None raises.
_single_framework_report(result) ==
    LET analysis == result.framework_analysis IN
    IF analysis.kind = "none" THEN Raised("AttributeError", NoReport)
    ELSE Returned(
      [has_consolidated_report |-> TRUE,
       executive_summary |-> IF analysis.kind = "dict" THEN analysis.summary
                             ELSE "Single framework analysis completed.",
       top_insights |->
          [i \in 1..Len(Take(analysis.insights, 5)) |->
              [insight |-> analysis.insights[i],
               source_frameworks |-> <<result.framework_id>>,
               confidence |-> GetOr(result.confidence_level, 7)]],
       convergence_points |-> <<>>,
       divergence_points |-> <<>>,
       opportunities |->
          [i \in 1..Len(analysis.opportunities) |->
              [opportunity |-> analysis.opportunities[i],
               from_framework |-> result.framework_title]],
       risks_and_gaps |->
          [i \in 1..Len(analysis.risks_or_gaps) |->
              [risk_or_gap |-> analysis.risks_or_gaps[i],
               from_framework |-> result.framework_title]],
       unified_recommendation |->
          [text |-> "Based on <title> analysis: <step>",
           title |-> result.framework_title,
           step |-> IF analysis.recommended_next_steps # <<>>
                    THEN analysis.recommended_next_steps[1]
                    ELSE "Continue analysis"],
       next_steps |-> analysis.recommended_next_steps,
       framework_contributions |->
          <<[framework_id |-> result.framework_id,
             framework_title |-> result.framework_title,
             best_insight |-> IF analysis.insights # <<>> THEN analysis.insights[1]
                              ELSE "N/A"]>>,
       all_citations |-> result.citations,
       overall_confidence |-> Some(GetOr(result.confidence_level, 7)),
       frameworks_used |-> 1,
       total_insights |-> Len(analysis.insights),
       _error |-> None])

\* all_insights / all_opportunities / all_risks of _fallback_consolidation:
\* the lists of every result, concatenated in input order.
RECURSIVE Extend(_, _)
Extend(framework_results, field) ==
    IF framework_results = <<>> THEN <<>>
    ELSE Head(framework_results).framework_analysis[field]
         \o Extend(Tail(framework_results), field)

\* _fallback_consolidation.  analysis = result.get("framework_analysis", {})
\* is None for a result whose entry is None, and analysis.get then raises.
_fallback_consolidation(framework_results, e) ==
    LET all_insights      == Extend(framework_results, "insights")
        all_opportunities == Extend(framework_results, "opportunities")
        all_risks         == Extend(framework_results, "risks_or_gaps")
    IN
    IF \E i \in 1..Len(framework_results) :
          framework_results[i].framework_analysis.kind = "none"
    THEN Raised("AttributeError", NoReport)
    ELSE Returned(
      [has_consolidated_report |-> TRUE,
       executive_summary |-> "Consolidated analysis from <n> frameworks. Key themes: ...",
       top_insights |->
          [i \in 1..Len(Take(all_insights, 5)) |->
              [insight |-> all_insights[i],
               source_frameworks |-> <<multiple_id>>,
               confidence |-> 6]],
       convergence_points |-> <<>>,
       divergence_points |-> <<>>,
       opportunities |->
          [i \in 1..Len(Take(all_opportunities, 3)) |->
              [opportunity |-> all_opportunities[i], from_framework |-> Multiple_title]],
       risks_and_gaps |->
          [i \in 1..Len(Take(all_risks, 3)) |->
              [risk_or_gap |-> all_risks[i], from_framework |-> Multiple_title]],
       unified_recommendation |->
          NoRecommendation("Review the individual framework analyses for detailed insights."),
       next_steps |-> <<"Review framework outputs">>,
       framework_contributions |->
          [i \in 1..Len(framework_results) |->
              LET r == framework_results[i] IN
              [framework_id |-> r.framework_id,
               framework_title |-> TitleOr(r, Unknown_title),
               best_insight |-> IF r.framework_analysis.insights # <<>>
                                THEN r.framework_analysis.insights[1] ELSE "N/A"]],
       all_citations |-> _merge_citations(framework_results),
       overall_confidence |-> Some(5),
       frameworks_used |-> Len(framework_results),
       total_insights |-> Len(all_insights),
       _error |-> Some(e)])

\* FrameworkConsolidator.consolidate.  response is what the synthesis inference
\* gives: kind "error" (raised or not JSON), "non_object" (JSON, not an
\* object) or "object" with the object in response.report.  The prompt is built
\* outside the try block and calls .get on pyramid["scqa"].
consolidate(framework_results, pyramid, response) ==
    IF Len(framework_results) = 0 THEN Returned(_empty_consolidation)
    ELSE IF Len(framework_results) = 1
    THEN _single_framework_report(framework_results[1])
    ELSE IF pyramid.scqa = "not_mapping" THEN Raised("AttributeError", NoReport)
    ELSE CASE response.kind = "object" ->
                Returned([response.report EXCEPT
                             !.all_citations = _merge_citations(framework_results)])
           [] response.kind = "non_object" ->
                _fallback_consolidation(framework_results, "TypeError")
           [] OTHER ->
                _fallback_consolidation(framework_results, response.exception)

\* The inference calls of one consolidate: the one generate_content call of
\* the try block, for two or more results whose prompt could be built.
ConsolidateInferenceCalls(framework_results, pyramid) ==
    IF Len(framework_results) >= 2 /\ pyramid.scqa # "not_mapping" THEN 1 ELSE 0

\* _merge_citations writes used_by_frameworks into the citation objects of its
\* arguments: the first citation of each title is the object all_citations
\* holds.  The argument list as it is after one merge.
MergeMutation(framework_results) ==
    LET merged == _merge_citations(framework_results)
        FirstVisit(i, j) ==
            LET title == framework_results[i].citations[j].title IN
            /\ title # ""
            /\ \A i2 \in 1..i : \A j2 \in 1..Len(framework_results[i2].citations) :
                  (i2 < i \/ j2 < j) => framework_results[i2].citations[j2].title # title
    IN  [i \in 1..Len(framework_results) |->
            [framework_results[i] EXCEPT !.citations =
                [j \in 1..Len(framework_results[i].citations) |->
                    IF FirstVisit(i, j)
                    THEN merged[CHOOSE k \in 1..Len(merged) :
                                    merged[k].title = framework_results[i].citations[j].title]
                    ELSE framework_results[i].citations[j]]]]

\* The argument list after consolidate: _merge_citations runs on the
\* inference path after the parse, and at the end of _fallback_consolidation.
InputsAfter(framework_results, pyramid, response) ==
    IF /\ Len(framework_results) >= 2
       /\ pyramid.scqa # "not_mapping"
       /\ \/ response.kind \in {"object", "non_object"}
          \/ ~ _fallback_consolidation(framework_results, "").raised
    THEN MergeMutation(framework_results)
    ELSE framework_results

-----------------------------------------------------------------------------
(* src/agents/framework_recommender.py                                     *)

\* rec["full_data"] as _enrich_recommendations writes it
FullData(framework) ==
    [title |-> framework.title, definition |-> "definition",
     n_key_questions |-> framework.n_key_questions,
     n_output_structure |-> framework.n_output_structure,
     required_concepts |-> Some(framework.n_required_concepts)]

\* rec["full_data"] as _fallback_recommendations writes it (no required_concepts)
FallbackFullData(framework) ==
    [FullData(framework) EXCEPT !.required_concepts = None]

\* _enrich_recommendations: every rec is kept; a rec whose id is in the
\* catalog gets full_data.
_enrich_recommendations(result) ==
    [result EXCEPT !.recommended_frameworks =
        [i \in 1..Len(result.recommended_frameworks) |->
            LET rec == result.recommended_frameworks[i] IN
            IF rec.framework_id \in DOMAIN ALL_FRAMEWORKS
            THEN [rec EXCEPT !.full_data = Some(FullData(ALL_FRAMEWORKS[rec.framework_id]))]
            ELSE rec]]

\* signal_frameworks of _fallback_recommendations
signal_frameworks ==
    "causal_ambiguity" :> [fid |-> root_cause_analysis, title |-> "Root Cause Analysis"] @@
    "system_bottleneck" :> [fid |-> reverse_salience, title |-> "Reverse Salience"] @@
    "stakeholder_conflict" :> [fid |-> stakeholder_mapping, title |-> "Stakeholder Mapping"] @@
    "trend_pressure" :> [fid |-> scenario_planning, title |-> "Scenario Planning"] @@
    "user_behavior" :> [fid |-> jobs_to_be_done, title |-> "Jobs-To-Be-Done"] @@
    "business_model" :> [fid |-> business_model_canvas, title |-> "Business Model Canvas"] @@
    "validation_gap" :> [fid |-> lean_startup_mvp, title |-> "Lean Startup / MVP"] @@
    "execution_focus" :> [fid |-> process_mapping, title |-> "Process Mapping"] @@
    "ideation_needed" :> [fid |-> six_thinking_hats, title |-> "Six Thinking Hats"] @@
    "narrative_focus" :> [fid |-> heart_framework, title |-> "HEART Framework"] @@
    "strategic_choice" :> [fid |-> decision_trees, title |-> "Decision Trees"] @@
    "uncertainty_high" :> [fid |-> cynefin, title |-> "Cynefin Framework"] @@
    "time_pressure" :> [fid |-> pws_triple_validation, title |-> "PWS Triple Validation"]

\* Defaults that all come from the discovery phase of the catalog
DiverseDefaultsOnePhase ==
    << [fid |-> root_cause_analysis, title |-> "Root Cause Analysis"],
       [fid |-> scenario_planning, title |-> "Scenario Planning"],
       [fid |-> macro_trends, title |-> "Macro Trends Analysis"],
       [fid |-> six_thinking_hats, title |-> "Six Thinking Hats"] >>

\* diverse_defaults of _fallback_recommendations
diverse_defaults ==
    << [fid |-> root_cause_analysis, title |-> "Root Cause Analysis"],
       [fid |-> scenario_planning, title |-> "Scenario Planning"],
       [fid |-> stakeholder_mapping, title |-> "Stakeholder Mapping"],
       [fid |-> six_thinking_hats, title |-> "Six Thinking Hats"] >>

Recommendation(entry, score, signals) ==
    [framework_id |-> entry.fid, title |-> entry.title, relevance_score |-> score,
     signals_matched |-> signals, full_data |-> None]

\* The recommendations _fallback_recommendations builds from detected_signals[:4]
SignalRecommendations(detected_signals) ==
    LET signals == Take(detected_signals, 4)
        F[i \in 0..Len(signals)] ==
          IF i = 0 THEN <<>>
          ELSE LET signal == signals[i] IN
               IF /\ signal \in DOMAIN signal_frameworks
                  /\ ~ \E j \in 1..Len(F[i-1]) :
                          F[i-1][j].framework_id = signal_frameworks[signal].fid
               THEN Append(F[i-1], Recommendation(signal_frameworks[signal], 80, <<signal>>))
               ELSE F[i-1]
    IN  F[Len(signals)]

\* _fallback_recommendations
_fallback_recommendations(pyramid, e) ==
    LET from_signals == SignalRecommendations(pyramid.detected_signals)
        defaults == Take(diverse_defaults, 3)
        recommendations ==
          IF from_signals # <<>> THEN from_signals
          ELSE [i \in 1..Len(defaults) |-> Recommendation(defaults[i], 70, <<>>)]
    IN  [recommended_frameworks |->
            [i \in 1..Len(recommendations) |->
                LET rec == recommendations[i] IN
                IF rec.framework_id \in DOMAIN ALL_FRAMEWORKS
                THEN [rec EXCEPT !.full_data =
                         Some(FallbackFullData(ALL_FRAMEWORKS[rec.framework_id]))]
                ELSE rec],
         suggested_frameworks |-> <<>>,
         primary_recommendation |->
            IF recommendations # <<>> THEN recommendations[1].framework_id
            ELSE root_cause_analysis,
         _error |-> Some(e)]

\* The value an outcome carries when recommend raised.
NoRecommendations ==
    [recommended_frameworks |-> <<>>, suggested_frameworks |-> <<>>,
     primary_recommendation |-> <<>>, _error |-> None]

\* The inference calls of one recommend call: the one generate_content call of
\* the try block, reached when the prompt could be built.
RecommendInferenceCalls(pyramid) == IF pyramid.scqa = "not_mapping" THEN 0 ELSE 1

\* FrameworkRecommender.recommend.  response is what the inference gives: kind
\* "error", "non_object" (result.get then raises inside the try block) or
\* "object" with the object in response.result.  _build_context_summary runs
\* before the try block and calls .get on pyramid["scqa"].
recommend(pyramid, response) ==
    IF pyramid.scqa = "not_mapping" THEN Raised("AttributeError", NoRecommendations)
    ELSE CASE response.kind = "object" ->
                Returned(_enrich_recommendations(response.result))
           [] response.kind = "non_object" ->
                Returned(_fallback_recommendations(pyramid, "AttributeError"))
           [] OTHER -> Returned(_fallback_recommendations(pyramid, response.exception))

-----------------------------------------------------------------------------
(* src/agents/definition_classifier.py, complexity_assessor.py,            *)
(* risk_uncertainty.py, wickedness_classifier.py                           *)

\* A classifier output.  level is the entry "definition_level",
\* "complexity_level", "label" or "wickedness_level" of the dimension;
\* confidence and position are in tenths; an entry may be missing.  reasoning
\* is the sequence of the parts the text is made of.
ClassifierOutput(kind, level, confidence, position, reasoning) ==
    [kind |-> kind, level |-> level, confidence |-> confidence, position |-> position,
     n_wicked_characteristics |-> 0, reasoning |-> reasoning]

Dimensions == {"definition", "complexity", "risk_uncertainty", "wickedness"}

\* A default that does not say what went wrong
ClassifierDefaultSilent(dimension, e) ==
    ClassifierOutput("dict", Some("undefined"), Some(3), None, <<"Unable to classify: ">>)

\* The dict of the except branch of each classifier; e is str(e)
ClassifierDefault(dimension, e) ==
    CASE dimension = "definition" ->
            ClassifierOutput("dict", Some("undefined"), Some(3), None,
                             <<"Unable to classify: ", e>>)
      [] dimension = "complexity" ->
            ClassifierOutput("dict", Some("complex"), Some(3), None,
                             <<"Unable to assess: ", e>>)
      [] dimension = "risk_uncertainty" ->
            ClassifierOutput("dict", Some("balanced"), Some(3), Some(5),
                             <<"Unable to evaluate: ", e>>)
      [] OTHER ->
            ClassifierOutput("dict", Some("messy"), Some(3), None,
                             <<"Unable to classify: ", e>>)

\* classify / assess / evaluate: the parsed JSON is returned as it is;
\* an exception of the call or of the parse gives the default.
classify(dimension, response) ==
    IF response.kind = "error" THEN ClassifierDefault(dimension, response.exception)
    ELSE response.output

-----------------------------------------------------------------------------
(* src/agents/diagnosis_consolidator.py                                    *)

NoDiagnosis == [profile |-> None, research |-> None, ui_updates |-> None]

Profile(name, approach, frameworks, levels) ==
    [name |-> name, recommended_approach |-> approach, framework_matches |-> frameworks,
     diagnosis |-> levels, overall_difficulty |-> "medium"]

Research(recommended, urgency) == [recommended |-> recommended, urgency |-> urgency]

UiUpdates(definition, complexity, risk_uncertainty, wickedness, show_research_prompt) ==
    [definition |-> definition, complexity |-> complexity,
     risk_uncertainty |-> risk_uncertainty, wickedness |-> wickedness,
     show_research_prompt |-> show_research_prompt]

Levels(definition, complexity, position, wickedness) ==
    [definition |-> definition, complexity |-> complexity, position |-> position,
     wickedness |-> wickedness]

\* _default_diagnosis
_default_diagnosis ==
    [profile |-> Some(Profile("Just Starting", "Analysis",
                              <<"Problem Discovery", "Design Thinking">>,
                              Levels("undefined", "complex", 5, "messy"))),
     research |-> Some(Research(FALSE, "low")),
     ui_updates |-> Some(UiUpdates("undefined", "complex", 5, "messy", FALSE))]

\* A chain that tests the wickedness level before the other levels
ProfileRowWickednessFirst(def_level, comp_level, wick_level) ==
    IF wick_level \in {"complex", "wicked"}
    THEN [name |-> "Systemic Challenge", approach |-> "Experimentation",
          frameworks |-> <<"Systems Thinking", "Stakeholder Mapping">>]
    ELSE IF def_level = "undefined" /\ comp_level \in {"complex", "chaotic"}
    THEN [name |-> "Early Exploration", approach |-> "Sense-making",
          frameworks |-> <<"Beautiful Questions", "Problem Discovery">>]
    ELSE IF def_level = "well-defined" /\ comp_level = "simple"
    THEN [name |-> "Ready to Execute", approach |-> "Execution",
          frameworks |-> <<"Solution Validation", "MVP Testing">>]
    ELSE IF def_level = "ill-defined" /\ comp_level = "complicated"
    THEN [name |-> "Needs Analysis", approach |-> "Analysis",
          frameworks |-> <<"Root Cause Analysis", "Hypothesis Testing">>]
    ELSE [name |-> "Innovation Challenge", approach |-> "Analysis",
          frameworks |-> <<"Design Thinking", "Jobs to Be Done">>]

\* The if / elif chain of _fallback_consolidation (lines 278-297)
ProfileRow(def_level, comp_level, wick_level) ==
    IF def_level = "undefined" /\ comp_level \in {"complex", "chaotic"}
    THEN [name |-> "Early Exploration", approach |-> "Sense-making",
          frameworks |-> <<"Beautiful Questions", "Problem Discovery">>]
    ELSE IF def_level = "well-defined" /\ comp_level = "simple"
    THEN [name |-> "Ready to Execute", approach |-> "Execution",
          frameworks |-> <<"Solution Validation", "MVP Testing">>]
    ELSE IF def_level = "ill-defined" /\ comp_level = "complicated"
    THEN [name |-> "Needs Analysis", approach |-> "Analysis",
          frameworks |-> <<"Root Cause Analysis", "Hypothesis Testing">>]
    ELSE IF wick_level \in {"complex", "wicked"}
    THEN [name |-> "Systemic Challenge", approach |-> "Experimentation",
          frameworks |-> <<"Systems Thinking", "Stakeholder Mapping">>]
    ELSE [name |-> "Innovation Challenge", approach |-> "Analysis",
          frameworks |-> <<"Design Thinking", "Jobs to Be Done">>]

\* Some classifier output is not a dict, so that .get on it raises.
NotAllDicts(definition, complexity, risk, wickedness) ==
    \E output \in {definition, complexity, risk, wickedness} : output.kind # "dict"

\* _fallback_consolidation of the diagnosis consolidator
DiagnosisFallback(definition, complexity, risk, wickedness) ==
    IF NotAllDicts(definition, complexity, risk, wickedness)
    THEN Raised("AttributeError", NoDiagnosis)
    ELSE LET def_level  == GetOr(definition.level, "undefined")
             comp_level == GetOr(complexity.level, "complex")
             risk_pos   == GetOr(risk.position, 5)
             wick_level == GetOr(wickedness.level, "messy")
             row        == ProfileRow(def_level, comp_level, wick_level)
         IN  Returned(
               [profile |-> Some(Profile(row.name, row.approach, row.frameworks,
                                         Levels(def_level, comp_level, risk_pos, wick_level))),
                research |-> Some(Research(def_level = "undefined"
                                             \/ wick_level \in {"complex", "wicked"},
                                           IF def_level = "undefined" THEN "medium" ELSE "low")),
                ui_updates |-> Some(UiUpdates(def_level, comp_level, risk_pos, wick_level,
                                              def_level = "undefined"))])

\* _consolidate_with_file_search.  response is what the consolidation
\* inference gives: kind "error", "non_object" (the item assignment raises
\* inside the try block) or "object" with the object in response.result.  An
\* object is returned as it is, ui_updates being added when it has none.
_consolidate_with_file_search(definition, complexity, risk, wickedness, response) ==
    IF response.kind # "object"
    THEN DiagnosisFallback(definition, complexity, risk, wickedness)
    ELSE IF response.result.ui_updates # None
    THEN Returned(response.result)
    ELSE IF NotAllDicts(definition, complexity, risk, wickedness)
    THEN DiagnosisFallback(definition, complexity, risk, wickedness)
    ELSE Returned([response.result EXCEPT !.ui_updates =
                     Some(UiUpdates(GetOr(definition.level, "undefined"),
                                    GetOr(complexity.level, "complex"),
                                    GetOr(risk.position, 5),
                                    GetOr(wickedness.level, "messy"), TRUE))])

\* The inference calls of one diagnose: none before the length test of line
\* 52, else one per classifier (each classifier makes its call first thing in
\* its try block) and the one of _consolidate_with_file_search.
DiagnoseInferenceCalls(messages) == IF messages < 2 THEN 0 ELSE 5

\* diagnose without the length test of line 52
DiagnoseAnyLength(messages, classified, response) ==
    _consolidate_with_file_search(classified["definition"], classified["complexity"],
                                  classified["risk_uncertainty"],
                                  classified["wickedness"], response)

\* DiagnosisConsolidator.diagnose, given the four classifier outputs
diagnose(messages, classified, response) ==
    IF messages < 2 THEN Returned(_default_diagnosis)
    ELSE _consolidate_with_file_search(classified["definition"], classified["complexity"],
                                       classified["risk_uncertainty"],
                                       classified["wickedness"], response)

-----------------------------------------------------------------------------
(* src/agents/research_agent.py                                             *)
(* A query is the sequence of the parts its text is made of.               *)

\* The dict of the except branch of _analyze_context
DefaultContext ==
    [kind |-> "dict", core_question |-> "Understanding the problem space",
     user_hypothesis |-> "Initial exploration", industry_context |-> "General",
     joinable |-> TRUE]

\* _analyze_context: the parsed JSON is returned as it is, whatever it is.
_analyze_context(response) ==
    IF response.kind = "error" THEN DefaultContext ELSE response.context

\* The list of the except branch of _generate_queries
FallbackQueries(context) ==
    << <<context.core_question, " market research">>,
       <<context.core_question, " case studies">>,
       <<context.core_question, " challenges failures">>,
       <<context.user_hypothesis, " validation data">>,
       <<context.industry_context, " trends 2024 2025">> >>

\* _generate_queries.  context.get and ', '.join(validations) run before the
\* try block: the first raises for a context that is not a dict, the second
\* for a needs_validation entry that is not a list of strings.  In the try
\* block queries[:7] raises for a JSON object and slices a list or a string.
_generate_queries(context, response) ==
    IF context.kind # "dict" THEN Raised("AttributeError", <<>>)
    ELSE IF ~context.joinable THEN Raised("TypeError", <<>>)
    ELSE IF response.kind \in {"list", "string"}
    THEN Returned(Take(response.queries, 7))
    ELSE Returned(FallbackQueries(context))

NotConfigured == "Tavily API key not configured"

\* The entry _execute_searches makes of the provider's response to one query
SearchEntry(query, response) ==
    CASE response.kind = "ok" ->
            [query |-> query, answer |-> Some(response.answer),
             results |-> response.results, error |-> None]
      [] response.kind = "status" ->
            [query |-> query, answer |-> None, results |-> <<>>,
             error |-> Some("API error: 500")]
      [] OTHER ->
            [query |-> query, answer |-> None, results |-> <<>>,
             error |-> Some(response.exception)]

\* An executor of searches that gives nothing for a missing key
ExecuteSearchesSilent(api_key, queries, responses) ==
    IF ~api_key THEN <<>>
    ELSE [i \in 1..Len(queries) |-> SearchEntry(queries[i], responses[i])]

\* _execute_searches
_execute_searches(api_key, queries, responses) ==
    IF ~api_key
    THEN [i \in 1..Len(queries) |->
            [query |-> queries[i], answer |-> None, results |-> <<>>,
             error |-> Some(NotConfigured)]]
    ELSE [i \in 1..Len(queries) |-> SearchEntry(queries[i], responses[i])]

\* The requests.post calls of _execute_searches
ExternalCalls(api_key, queries) == IF api_key THEN Len(queries) ELSE 0

\* all_sources of _synthesize_findings, before the numbering
RECURSIVE AllSources(_)
AllSources(search_results) ==
    IF search_results = <<>> THEN <<>>
    ELSE LET sr == Head(search_results) IN
         [j \in 1..Len(sr.results) |->
             [title |-> sr.results[j].title, query |-> sr.query]]
         \o AllSources(Tail(search_results))

NoSynthesis ==
    [kind |-> "none", executive_summary |-> "", citation_table |-> <<>>,
     raw_sources |-> <<>>, context_analysis |-> None, _error |-> None]

\* _fallback_synthesis
_fallback_synthesis(context, sources, e) ==
    [kind |-> "dict",
     executive_summary |-> "Found <n> relevant sources. Review the citation table for detailed findings.",
     citation_table |->
        [i \in 1..Len(Take(sources, 8)) |->
            [rank |-> i, title |-> sources[i].title, stance |-> "nuances"]],
     raw_sources |-> sources,
     context_analysis |-> Some(context),
     _error |-> Some(e)]

\* _synthesize_findings.  The loop over the results runs before the try
\* block; result.get('raw_content', ...)[:800] raises for a result whose
\* raw_content is null.  In the try block the item assignment raises for
\* JSON that is not an object.
_synthesize_findings(context, search_results, response) ==
    LET all_sources == AllSources(search_results) IN
    IF \E i \in 1..Len(search_results) : \E j \in 1..Len(search_results[i].results) :
          search_results[i].results[j].raw_content = "null"
    THEN Raised("TypeError", NoSynthesis)
    ELSE CASE response.kind = "object" ->
                Returned([response.synthesis EXCEPT !.raw_sources = all_sources,
                                                    !.context_analysis = Some(context)])
           [] response.kind = "non_object" ->
                Returned(_fallback_synthesis(context, all_sources, "TypeError"))
           [] OTHER ->
                Returned(_fallback_synthesis(context, all_sources, response.exception))

-----------------------------------------------------------------------------
(* src/agents/minto_analyzer.py                                             *)
(* A message content, and the SCQA question cut from it, is a sequence of   *)
(* characters.  An analysis keeps, of the JSON object, the scqa entry, the  *)
(* signal entries under the two names the code uses, and the error tag.     *)

Scqa(situation, complication, question, answer_direction) ==
    [kind |-> "dict", situation |-> situation, complication |-> complication,
     question |-> question, answer_direction |-> answer_direction]

\* The scqa entry of an object that has none
NoScqa == [Scqa("", "", <<>>, "") EXCEPT !.kind = "absent"]

Analysis(scqa, detected_signals, signals, primary_signal, e) ==
    [kind |-> "dict", scqa |-> scqa, detected_signals |-> detected_signals,
     signals |-> signals, primary_signal |-> primary_signal, _error |-> e]

NoAnalysisYet == [Analysis(NoScqa, None, None, None, None) EXCEPT !.kind = "none"]

WhatIsTheUserSolving ==
    <<"W","h","a","t"," ","p","r","o","b","l","e","m"," ","i","s"," ","t","h","e"," ",
      "u","s","e","r"," ","t","r","y","i","n","g"," ","t","o"," ","s","o","l","v","e","?">>

WhatsTheProblem ==
    <<"W","h","a","t","'","s"," ","t","h","e"," ","p","r","o","b","l","e","m","?">>

\* MintoAnalyzer._default_pyramid
_default_pyramid ==
    Analysis(Scqa("New conversation initiated", "Problem not yet articulated",
                  WhatIsTheUserSolving, "Need more information"),
             None, None, None, None)

\* user_messages of _fallback_pyramid
UserMessages(conversation) ==
    SelectSeq([i \in 1..Len(conversation) |-> conversation[i]],
              LAMBDA m : m.role = "user")

\* A fallback that asks its fixed question whatever the user wrote
FallbackPyramidFixedQuestion(conversation, e) ==
    Analysis(Scqa("Conversation ongoing", "Analysis needed", WhatsTheProblem,
                  "Requires further exploration"),
             None, None, None, Some(e))

\* MintoAnalyzer._fallback_pyramid
_fallback_pyramid(conversation, e) ==
    LET user_messages == UserMessages(conversation)
        latest_user == IF user_messages # <<>>
                       THEN user_messages[Len(user_messages)].content ELSE <<>>
    IN  Analysis(Scqa("Conversation ongoing", "Analysis needed",
                      IF latest_user # <<>> THEN Take(latest_user, 200)
                      ELSE WhatsTheProblem,
                      "Requires further exploration"),
                 None, None, None, Some(e))

\* The inference calls of one analyze
AnalyzeInferenceCalls(conversation) == IF Len(conversation) < 1 THEN 0 ELSE 1

\* MintoAnalyzer.analyze: the parsed JSON is returned as it is
analyze(conversation, response) ==
    IF Len(conversation) < 1 THEN _default_pyramid
    ELSE IF response.kind = "error" THEN _fallback_pyramid(conversation, response.exception)
    ELSE response.result

-----------------------------------------------------------------------------
(* src/agents/streaming_pyramid.py                                          *)
(* A parsed JSON value has kind "none" (no JSON, or null), "empty_dict",    *)
(* "dict" or "non_dict" (a non-empty list).  A StreamingChunk keeps its     *)
(* type and whether it carries data.                                       *)

StreamingChunk(type, has_data) == [type |-> type, has_data |-> has_data]

\* if pyramid_result: / if framework_result:
Truthy(parsed) == parsed.kind \in {"dict", "non_dict"}

\* StreamingPyramidAnalyzer._fallback_pyramid
FastFallbackPyramid ==
    Analysis(Scqa("Conversation in progress", "Problem being explored",
                  <<"W","h","a","t","'","s"," ","t","h","e"," ","c","o","r","e"," ",
                    "i","s","s","u","e","?">>,
                  "Needs more exploration"),
             None, Some(<<"causal_ambiguity">>), Some("causal_ambiguity"), None)

Selection(primary_kind, id, name) ==
    [kind |-> "dict", primary |-> [kind |-> primary_kind, id |-> id, name |-> name],
     alternatives |-> <<six_thinking_hats, process_mapping>>]

NoSelection == [Selection("absent", <<>>, "") EXCEPT !.kind = "none", !.alternatives = <<>>]

\* mapping of _fallback_framework
FastSignalMapping ==
    "causal_ambiguity" :> [fid |-> root_cause_analysis, title |-> "Root Cause Analysis"] @@
    "system_bottleneck" :> [fid |-> reverse_salience, title |-> "Reverse Salience"] @@
    "stakeholder_conflict" :> [fid |-> stakeholder_mapping, title |-> "Stakeholder Mapping"] @@
    "user_behavior" :> [fid |-> jobs_to_be_done, title |-> "Jobs-To-Be-Done"] @@
    "validation_gap" :> [fid |-> lean_startup_mvp, title |-> "Lean Startup / MVP"] @@
    "uncertainty_high" :> [fid |-> scenario_planning, title |-> "Scenario Planning"]

\* StreamingPyramidAnalyzer._fallback_framework
_fallback_framework(signal) ==
    LET entry == IF signal \in DOMAIN FastSignalMapping THEN FastSignalMapping[signal]
                 ELSE [fid |-> root_cause_analysis, title |-> "Root Cause Analysis"]
    IN  Selection("dict", entry.fid, entry.title)

\* Lines 133-153: the chunks of the parsed pyramid, and pyramid_result after
\* them.  .get on a result that is not a dict, or on a null scqa, raises.
PyramidChunks(parsed) ==
    IF ~Truthy(parsed)
    THEN [raised |-> FALSE, chunks |-> <<StreamingChunk("signal", TRUE)>>,
          pyramid |-> FastFallbackPyramid]
    ELSE IF parsed.kind = "non_dict" \/ parsed.scqa.kind = "null"
    THEN [raised |-> TRUE, chunks |-> <<>>, pyramid |-> parsed]
    ELSE [raised |-> FALSE,
          chunks |-> <<StreamingChunk("scqa", parsed.scqa.kind = "dict"),
                       StreamingChunk("signal", TRUE)>>,
          pyramid |-> parsed]

\* Lines 158-181: the framework chunk of the second inference, and
\* framework_result after it
FrameworkChunk(pyramid, response) ==
    IF response.raises THEN [raised |-> TRUE, frameworks |-> NoSelection]
    ELSE IF ~Truthy(response.parsed)
    THEN [raised |-> FALSE,
          frameworks |-> _fallback_framework(GetOr(pyramid.primary_signal, ""))]
    ELSE IF response.parsed.kind = "non_dict" \/ response.parsed.primary.kind = "null"
    THEN [raised |-> TRUE, frameworks |-> NoSelection]
    ELSE [raised |-> FALSE, frameworks |-> response.parsed]

-----------------------------------------------------------------------------
(* What the environment supplies.                                          *)

\* Largest batch of framework ids, and number of batches in one run.
MaxBatch == 3
MaxBatches == 2

\* Largest batch after the first one
MaxRepeatBatch == 1

\* max_workers of both thread pools
MaxWorkers == 5

\* Ids a batch is drawn from: catalog ids whose title does and does not
\* normalise to the id, and an id the catalog does not hold.
IdPool == {reverse_salience, jobs_to_be_done, stakeholder_mapping, cynefin}

Batches == {ids \in SUBSET IdPool : Cardinality(ids) <= MaxBatch}

RepeatBatches == {ids \in SUBSET IdPool : Cardinality(ids) <= MaxRepeatBatch}

ErrorResponse(e) ==
    [kind |-> "error", exception |-> e, framework_analysis |-> NoAnalysis("absent"),
     confidence_level |-> None, grounding_chunks |-> <<>>]

ObjectResponse(analysis, confidence, chunks) ==
    [kind |-> "object", exception |-> "", framework_analysis |-> analysis,
     confidence_level |-> confidence, grounding_chunks |-> chunks]

AnalysisOf(insights, opportunities, risks, steps) ==
    [kind |-> "dict", summary |-> "summary", key_questions_answered |-> <<>>,
     framework_output |-> <<>>, insights |-> insights,
     opportunities |-> opportunities, risks_or_gaps |-> risks,
     recommended_next_steps |-> steps]

\* The executor inference responses a batch run draws from.
RunnerResponses ==
    { ErrorResponse("api error"),
      ObjectResponse(AnalysisOf(<<"i1">>, <<"o1">>, <<"r1">>, <<"n1">>), Some(8),
                     <<[title |-> "T1", text |-> "x"]>>) }

\* A synthesis the consolidation inference may return.
SynthesisReport ==
    [_empty_consolidation EXCEPT
        !.executive_summary = "synthesis",
        !.top_insights = <<[insight |-> "i1", source_frameworks |-> <<reverse_salience>>,
                            confidence |-> 8]>>,
        !.unified_recommendation = NoRecommendation("synthesised recommendation"),
        !.overall_confidence = Some(8), !.frameworks_used = 2, !.total_insights = 1]

ConsolidationResponses ==
    { [kind |-> "error", exception |-> "api error", report |-> NoReport],
      [kind |-> "non_object", exception |-> "", report |-> NoReport],
      [kind |-> "object", exception |-> "", report |-> SynthesisReport],
      [kind |-> "object", exception |-> "",
       report |-> [SynthesisReport EXCEPT !.has_consolidated_report = FALSE]] }

Pyramid(scqa) == [scqa |-> scqa, detected_signals |-> <<>>]

RunnerPyramids == {Pyramid("mapping"), Pyramid("not_mapping")}

\* ---- inputs of consolidate ----

\* Longest result list handed to consolidate, and most insights in one analysis.
MaxResults == 2
MaxInsights == 6

InsightTexts == <<"i1", "i2", "i3", "i4", "i5", "i6", "i7", "i8">>

ConsIds == {reverse_salience, jobs_to_be_done, cynefin}

\* Executor inference responses behind the results handed to consolidate:
\* a failure, an analysis with one insight, one with MaxInsights insights whose
\* citations share a title with the former (another chunk of that document),
\* an object without framework_analysis whose chunk has an empty title, and
\* an object whose framework_analysis is null.
ConsExecResponses ==
    { ErrorResponse("api error"),
      ObjectResponse(AnalysisOf(<<"i1">>, <<"o1">>, <<"r1">>, <<"n1">>), Some(8),
                     <<[title |-> "T1", text |-> "x"]>>),
      ObjectResponse(AnalysisOf(Take(InsightTexts, MaxInsights), <<"o1", "o2">>, <<"r1">>,
                                <<"n1", "n2">>), Some(6),
                     <<[title |-> "T1", text |-> "y"], [title |-> "T2", text |-> "z"]>>),
      ObjectResponse(NoAnalysis("absent"), None, <<[title |-> "", text |-> "w"]>>),
      ObjectResponse(NoAnalysis("none"), Some(5), <<>>) }

\* The result lists of up to MaxResults distinct requested ids
ConsInputs(pyramid) ==
    UNION { { [i \in 1..n |-> RunnerResult(ids[i], pyramid, responses[i])] :
                ids \in {q \in [1..n -> ConsIds] : \A i, j \in 1..n : q[i] = q[j] => i = j},
                responses \in [1..n -> ConsExecResponses] } :
            n \in 0..MaxResults }

\* ---- inputs of recommend ----

\* Longest detected_signals list
MaxSignals == 5

\* Signals of the table that map to a catalog id and to an id the catalog does
\* not hold, and a tag the table does not hold.
SignalPool == {"causal_ambiguity", "system_bottleneck", "uncertainty_high", "not_a_signal"}

SignalLists == UNION {[1..n -> SignalPool] : n \in 0..MaxSignals}

LLMRecommendation(framework_id) ==
    [framework_id |-> framework_id, title |-> "title", relevance_score |-> 90,
     signals_matched |-> <<>>, full_data |-> None]

RecommenderObject(ids) ==
    [kind |-> "object", exception |-> "",
     result |-> [recommended_frameworks |-> [i \in 1..Len(ids) |-> LLMRecommendation(ids[i])],
                 suggested_frameworks |-> <<>>,
                 primary_recommendation |-> IF ids = <<>> THEN reverse_salience ELSE ids[1],
                 _error |-> None]]

\* The object DYNAMIC_FRAMEWORK_SELECTOR_PROMPT asks for (prompts.py 474-493):
\* the frameworks are listed under "suggested_frameworks", with "id" and "name".
PromptedObject(ids) ==
    [kind |-> "object", exception |-> "",
     result |-> [NoRecommendations EXCEPT
                    !.suggested_frameworks = [i \in 1..Len(ids) |-> [id |-> ids[i]]]]]

RecommenderResponses ==
    { [kind |-> "error", exception |-> "api error", result |-> RecommenderObject(<<>>).result],
      [kind |-> "non_object", exception |-> "", result |-> RecommenderObject(<<>>).result],
      RecommenderObject(<<reverse_salience, jobs_to_be_done, stakeholder_mapping>>),
      RecommenderObject(<<reverse_salience, reverse_salience, jobs_to_be_done>>),
      RecommenderObject(<<reverse_salience, cynefin, jobs_to_be_done>>),
      RecommenderObject(<<reverse_salience>>),
      PromptedObject(<<reverse_salience, jobs_to_be_done, stakeholder_mapping>>),
      RecommenderObject(<<reverse_salience, jobs_to_be_done, stakeholder_mapping,
                          scenario_planning, process_mapping, six_thinking_hats,
                          systems_thinking, value_migration>>) }

\* ---- inputs of diagnose ----

\* Longest conversation
MaxMessages == 3

\* The place of a classifier output that does not exist
NoClassification == ClassifierOutput("not_run", None, None, None, <<>>)

LevelEnum(dimension) ==
    CASE dimension = "definition" -> {"undefined", "ill-defined", "well-defined"}
      [] dimension = "complexity" -> {"simple", "complicated", "complex", "chaotic"}
      [] dimension = "risk_uncertainty" ->
            {"risk", "mixed-risk", "balanced", "mixed-uncertainty", "uncertainty"}
      [] OTHER -> {"tame", "messy", "complex", "wicked"}

\* What a classifier inference may give: a failure, JSON that is not an
\* object, an object with a level of the enum or with another level, and an
\* object without the level.
ClassifierResponses(dimension) ==
    { [kind |-> "error", exception |-> e, output |-> NoClassification] :
        e \in {"api error", "JSONDecodeError"} }
    \cup
    { [kind |-> "non_object", exception |-> "",
       output |-> ClassifierOutput("non_dict", None, None, None, <<>>)],
      [kind |-> "object", exception |-> "",
       output |-> ClassifierOutput("dict", None, None, None, <<>>)] }
    \cup
    { [kind |-> "object", exception |-> "",
       output |-> [ClassifierOutput("dict", Some(level), Some(8),
                                    IF dimension = "risk_uncertainty" THEN Some(7) ELSE None,
                                    <<"reasoning">>)
                   EXCEPT !.n_wicked_characteristics =
                            IF dimension = "wickedness" THEN 2 ELSE 0]] :
        level \in LevelEnum(dimension) \cup {"severe"} }

AllClassifierResponses ==
    { [definition |-> a, complexity |-> b, risk_uncertainty |-> c, wickedness |-> d] :
        a \in ClassifierResponses("definition"), b \in ClassifierResponses("complexity"),
        c \in ClassifierResponses("risk_uncertainty"), d \in ClassifierResponses("wickedness") }

NotClassified == [dimension \in Dimensions |-> NoClassification]

LLMDiagnosis ==
    [profile |-> Some(Profile("Market Pioneer", "Immersion", <<"Blue Ocean">>,
                              Levels("ill-defined", "complex", 6, "messy"))),
     research |-> Some(Research(TRUE, "high")),
     ui_updates |-> Some(UiUpdates("ill-defined", "complex", 6, "messy", TRUE))]

DiagnosisResponses ==
    { [kind |-> "error", result |-> NoDiagnosis],
      [kind |-> "non_object", result |-> NoDiagnosis],
      [kind |-> "object", result |-> LLMDiagnosis],
      [kind |-> "object", result |-> [LLMDiagnosis EXCEPT !.ui_updates = None]],
      [kind |-> "object", result |-> [NoDiagnosis EXCEPT !.ui_updates = LLMDiagnosis.ui_updates]],
      [kind |-> "object", result |-> NoDiagnosis] }

\* ---- inputs of the context analyzers ----

\* Longest conversation given to an analyzer
MaxTurns == 3

Message(role, content) == [role |-> role, content |-> content]

Conversations ==
    UNION { [1..n -> {Message(role, content) :
                        role \in {"user", "assistant"},
                        content \in {<<>>, <<"h", "i">>}}] : n \in 0..MaxTurns }

\* The analysis the full prompt asks for
LLMAnalysis ==
    Analysis(Scqa("situation", "complication", <<"q">>, "direction"),
             Some(<<"causal_ambiguity", "uncertainty_high">>), None,
             Some("causal_ambiguity"), None)

\* What the analysis inference gives: a failure of the call or of the parse,
\* the object asked for, an object without scqa, and JSON that is no object.
AnalysisResponses ==
    { [kind |-> "error", exception |-> e, result |-> NoAnalysisYet] :
        e \in {"api error", "JSONDecodeError"} }
    \cup
    { [kind |-> "json", exception |-> "", result |-> LLMAnalysis],
      [kind |-> "json", exception |-> "", result |-> [LLMAnalysis EXCEPT !.scqa = NoScqa]],
      [kind |-> "json", exception |-> "", result |-> [NoAnalysisYet EXCEPT !.kind = "non_dict"]] }

\* ---- inputs of the streaming analyzer ----

\* Most chunks of one inference stream
MaxStream == 2

\* The analysis FAST_PYRAMID_PROMPT asks for: the signals are under "signals"
FastAnalysis ==
    Analysis(Scqa("situation", "complication", <<"q">>, "direction"),
             None, Some(<<"system_bottleneck", "uncertainty_high">>),
             Some("system_bottleneck"), None)

\* What the accumulated pyramid text parses to
ParsedPyramids ==
    { NoAnalysisYet,
      [NoAnalysisYet EXCEPT !.kind = "empty_dict"],
      [NoAnalysisYet EXCEPT !.kind = "non_dict"],
      FastAnalysis,
      [FastAnalysis EXCEPT !.scqa = NoScqa],
      [FastAnalysis EXCEPT !.scqa.kind = "null"],
      [FastAnalysis EXCEPT !.primary_signal = None, !.signals = None] }

\* The pyramid stream: its chunks, the chunk at which the provider raises
\* (none for 0), and what the text parses to
PyramidStreams ==
    { [n_chunks |-> n, raises_at |-> k, parsed |-> parsed] :
        n \in 0..MaxStream, k \in 0..MaxStream, parsed \in ParsedPyramids }

\* The framework stream: whether the provider raises, and what the text
\* parses to
FrameworkStreams ==
    { [raises |-> raises, parsed |-> parsed] :
        raises \in BOOLEAN,
        parsed \in { NoSelection,
                     [NoSelection EXCEPT !.kind = "non_dict"],
                     Selection("dict", reverse_salience, "Reverse Salience"),
                     Selection("absent", <<>>, ""),
                     Selection("null", <<>>, "") } }

\* ---- inputs of research ----

\* Longest query list the inference gives
MaxQueries == 3

QueryTexts == << <<"q1">>, <<"q2">>, <<"q3">>, <<"q4">>, <<"q5">>, <<"q6">>, <<"q7">>, <<"q8">> >>

\* What the context inference gives: a failure, an object, an object whose
\* needs_validation is null, and JSON that is not an object.
ContextResponses ==
    { [kind |-> "error", context |-> DefaultContext],
      [kind |-> "json", context |-> [DefaultContext EXCEPT !.core_question = "core question"]],
      [kind |-> "json", context |-> [DefaultContext EXCEPT !.joinable = FALSE]],
      [kind |-> "json", context |-> [DefaultContext EXCEPT !.kind = "list"]] }

\* What the query inference gives: a failure, a JSON object, a JSON string
\* and a list of queries.
QueryResponses ==
    { [kind |-> "error", queries |-> <<>>],
      [kind |-> "object", queries |-> <<>>],
      [kind |-> "string", queries |-> << <<"a">>, <<"b">> >>] }
    \cup { [kind |-> "list", queries |-> Take(QueryTexts, n)] : n \in 0..MaxQueries }

SearchResult(title, raw_content) == [title |-> title, raw_content |-> raw_content]

\* What the search provider answers to one query: no result, a result, a
\* result whose raw_content is null, a status other than 200, a failed request.
SearchResponses ==
    { [kind |-> "ok", answer |-> "answer", results |-> <<>>, exception |-> ""],
      [kind |-> "ok", answer |-> "answer", exception |-> "",
       results |-> <<SearchResult("S1", "text")>>],
      [kind |-> "ok", answer |-> "answer", exception |-> "",
       results |-> <<SearchResult("S1", "absent"), SearchResult("S2", "null")>>],
      [kind |-> "status", answer |-> "", results |-> <<>>, exception |-> ""],
      [kind |-> "exception", answer |-> "", results |-> <<>>, exception |-> "timeout"] }

SynthesisResponses ==
    { [kind |-> "error", exception |-> "api error", synthesis |-> NoSynthesis],
      [kind |-> "non_object", exception |-> "", synthesis |-> NoSynthesis],
      [kind |-> "object", exception |-> "",
       synthesis |-> [NoSynthesis EXCEPT !.kind = "dict", !.executive_summary = "summary"]] }

-----------------------------------------------------------------------------
(* src/app.py lines 847-940 and execute_frameworks_parallel: the batch.    *)

NoOutcome == Raised("", NoResult)

Finished(ids) == {f \in ids : futures[f].state = "finished"}
Running(ids)  == {f \in ids : futures[f].state = "running"}

\* No consolidate / recommend / diagnose call is being followed.
ConsOff ==
    /\ c_pc = "off"
    /\ c_framework_results = <<>>
    /\ c_pyramid = Pyramid("mapping")
    /\ c_response = [kind |-> "error", exception |-> "", report |-> NoReport]
    /\ c_after = <<>>
    /\ c_all_citations = <<>>
    /\ c_outcome = Raised("", NoReport)
    /\ c_inference_calls = 0

RecOff ==
    /\ r_pc = "off"
    /\ r_pyramid = Pyramid("mapping")
    /\ r_response = [kind |-> "error", exception |-> "", result |-> RecommenderObject(<<>>).result]
    /\ r_outcome = Raised("", RecommenderObject(<<>>).result)
    /\ r_inference_calls = 0

DiagOff ==
    /\ d_pc = "off"
    /\ d_messages = 0
    /\ d_responses = [dimension \in Dimensions |->
                         [kind |-> "error", exception |-> "", output |-> NoClassification]]
    /\ d_classified = NotClassified
    /\ d_consolidation = [kind |-> "error", result |-> NoDiagnosis]
    /\ d_outcome = Raised("", NoDiagnosis)
    /\ d_inference_calls = 0

ExecOff ==
    /\ e_pc = "off"
    /\ e_framework_id = reverse_salience
    /\ e_pyramid = Pyramid("mapping")
    /\ e_response = ErrorResponse("")
    /\ e_outcome = Raised("", NoResult)
    /\ e_inference_calls = 0

ResOff ==
    /\ rs_pc = "off"
    /\ rs_api_key = FALSE
    /\ rs_responses = [context |-> [kind |-> "error", context |-> DefaultContext],
                       queries |-> [kind |-> "error", queries |-> <<>>],
                       synthesis |-> [kind |-> "error", exception |-> "",
                                      synthesis |-> NoSynthesis]]
    /\ rs_context = DefaultContext
    /\ rs_queries = <<>>
    /\ rs_search_results = <<>>
    /\ rs_external_calls = 0
    /\ rs_outcome = Raised("", NoSynthesis)

AnaOff ==
    /\ a_pc = "off"
    /\ a_conversation = <<>>
    /\ a_response = [kind |-> "error", exception |-> "", result |-> NoAnalysisYet]
    /\ a_outcome = NoAnalysisYet
    /\ a_inference_calls = 0

StreamOff ==
    /\ t_pc = "off"
    /\ t_responses = [pyramid |-> [n_chunks |-> 0, raises_at |-> 0, parsed |-> NoAnalysisYet],
                      framework |-> [raises |-> FALSE, parsed |-> NoSelection]]
    /\ t_streamed = 0
    /\ t_pyramid = NoAnalysisYet
    /\ t_chunks = <<>>
    /\ t_final = [pyramid |-> NoAnalysisYet, frameworks |-> NoSelection]

\* init_session_state, with len(conversation.messages) for the conversation,
\* whether each framework_state field is set, and for full_diagnosis whether
\* it is None ("none"), the diagnosis of the latest chat turn ("latest") or
\* that of an earlier one ("stale")
InitialSessionState ==
    [messages |-> 0, researching |-> FALSE, pyramid_analyzing |-> FALSE,
     analyzing_frameworks |-> FALSE, full_diagnosis |-> "none", diagnosis_error |-> "",
     pyramid_analysis |-> FALSE, framework_recommendations |-> FALSE,
     consolidated_report |-> FALSE, has_researched |-> FALSE]

NoTurn == [due |-> FALSE, diagnose_invoked |-> FALSE, replaced |-> FALSE]

SessionOff ==
    /\ client = FALSE
    /\ tavily_configured = FALSE
    /\ session_state = InitialSessionState
    /\ last_turn = NoTurn

AgentsOff == ResOff /\ AnaOff /\ StreamOff /\ SessionOff

RunnerOff ==
    /\ pc = "off"
    /\ runner = "app"
    /\ selected_ids = {}
    /\ pyramid_analysis = Pyramid("mapping")
    /\ futures = [f \in {} |-> [state |-> "pending", outcome |-> Raised("", NoResult)]]
    /\ yielded = {}
    /\ results = <<>>
    /\ collected = <<>>
    /\ cancelled = FALSE
    /\ cancel_framework_analysis = FALSE
    /\ analyzing_frameworks = FALSE
    /\ selected_frameworks = {}
    /\ state_framework_results = <<>>
    /\ consolidated_report = None
    /\ signalled_after = None
    /\ batches = 0

CoreOff == RunnerOff /\ ConsOff /\ RecOff /\ DiagOff /\ ExecOff

RunnerInit ==
    /\ ConsOff /\ RecOff /\ DiagOff /\ ExecOff /\ AgentsOff
    /\ pc = "idle"
    /\ runner = "app"
    /\ selected_ids = {}
    /\ pyramid_analysis \in RunnerPyramids
    /\ futures = [f \in {} |-> [state |-> "pending", outcome |-> NoOutcome]]
    /\ yielded = {}
    /\ results = <<>>
    /\ collected = <<>>
    /\ cancelled = FALSE
    /\ cancel_framework_analysis = FALSE
    /\ analyzing_frameworks = FALSE
    /\ selected_frameworks = {}
    /\ state_framework_results = <<>>
    /\ consolidated_report = None
    /\ signalled_after = None
    /\ batches = 0

\* pool.submit for every id (the dict comprehension)
Submit(ids, which) ==
    /\ batches < MaxBatches
    /\ batches' = batches + 1
    /\ runner' = which
    /\ selected_ids' = ids
    /\ futures' = [f \in ids |-> [state |-> "pending", outcome |-> NoOutcome]]
    /\ yielded' = {}
    /\ results' = <<>>
    /\ collected' = <<>>
    /\ cancelled' = FALSE
    /\ signalled_after' = None
    /\ pc' = IF ids = {} THEN "shutdown" ELSE "loop"

\* app.py 848-851: the user applies a non-empty selection
Apply(ids) ==
    /\ pc = "idle"
    /\ ids # {}
    /\ batches > 0 => ids \in RepeatBatches
    /\ analyzing_frameworks' = TRUE
    /\ selected_frameworks' = ids
    /\ pc' = "start"
    /\ UNCHANGED <<runner, selected_ids, pyramid_analysis, futures, yielded, results,
                   collected, cancelled, cancel_framework_analysis, state_framework_results,
                   consolidated_report, signalled_after, batches>>
    /\ UNCHANGED <<consVars, recVars, diagVars, execVars, agentVars>>

\* app.py 854-888: the next script run starts the batch
AppSubmit ==
    /\ pc = "start"
    /\ analyzing_frameworks
    /\ Submit(selected_frameworks, "app")
    /\ UNCHANGED <<pyramid_analysis, cancel_framework_analysis, analyzing_frameworks,
                   selected_frameworks, state_framework_results, consolidated_report>>
    /\ UNCHANGED <<consVars, recVars, diagVars, execVars, agentVars>>

\* execute_frameworks_parallel 272-284
LibSubmit(ids) ==
    /\ pc = "idle"
    /\ batches > 0 => ids \in RepeatBatches
    /\ Submit(ids, "lib")
    /\ UNCHANGED <<pyramid_analysis, cancel_framework_analysis, analyzing_frameworks,
                   selected_frameworks, state_framework_results, consolidated_report>>
    /\ UNCHANGED <<consVars, recVars, diagVars, execVars, agentVars>>

\* A pool thread takes a pending call (at most max_workers run at once).
WorkerStart(f) ==
    /\ pc \in {"loop", "shutdown"}
    /\ f \in selected_ids
    /\ futures[f].state = "pending"
    /\ Cardinality(Running(selected_ids)) < MaxWorkers
    /\ futures' = [futures EXCEPT ![f].state = "running"]
    /\ UNCHANGED <<pc, runner, selected_ids, pyramid_analysis, yielded, results, collected,
                   cancelled, cancel_framework_analysis, analyzing_frameworks,
                   selected_frameworks, state_framework_results, consolidated_report,
                   signalled_after, batches>>
    /\ UNCHANGED <<consVars, recVars, diagVars, execVars, agentVars>>

\* The call returns or raises in its thread.
WorkerFinish(f, response) ==
    /\ pc \in {"loop", "shutdown"}
    /\ f \in selected_ids
    /\ futures[f].state = "running"
    /\ futures' = [futures EXCEPT
                      ![f] = [state |-> "finished",
                              outcome |-> execute(f, pyramid_analysis, response)]]
    /\ UNCHANGED <<pc, runner, selected_ids, pyramid_analysis, yielded, results, collected,
                   cancelled, cancel_framework_analysis, analyzing_frameworks,
                   selected_frameworks, state_framework_results, consolidated_report,
                   signalled_after, batches>>
    /\ UNCHANGED <<consVars, recVars, diagVars, execVars, agentVars>>

\* st.session_state.cancel_framework_analysis (set at app.py 865, read at 893)
\* becomes true while the loop runs; the calls finished by then are recorded.
SignalCancel ==
    /\ pc = "loop"
    /\ runner = "app"
    /\ ~cancel_framework_analysis
    /\ cancel_framework_analysis' = TRUE
    /\ signalled_after' = Some(Finished(selected_ids))
    /\ UNCHANGED <<pc, runner, selected_ids, pyramid_analysis, futures, yielded, results,
                   collected, cancelled, analyzing_frameworks, selected_frameworks,
                   state_framework_results, consolidated_report, batches>>
    /\ UNCHANGED <<consVars, recVars, diagVars, execVars, agentVars>>

\* The locals of main() are gone when a script run ends.
EndScriptRun ==
    /\ selected_ids' = {}
    /\ futures' = [f \in {} |-> [state |-> "pending", outcome |-> NoOutcome]]
    /\ yielded' = {}
    /\ results' = <<>>
    /\ collected' = <<>>
    /\ cancelled' = FALSE
    /\ signalled_after' = None

\* app.py 864-869: the user presses Cancel while the batch runs.  The click
\* ends the script run that executes the batch, and the next script run takes
\* the branch of the button: it sets the flag, clears analyzing_frameworks and
\* the selection, and reruns.  Nothing of the interrupted run is stored.
PressCancel ==
    /\ pc \in {"loop", "shutdown"}
    /\ runner = "app"
    /\ cancel_framework_analysis' = TRUE
    /\ analyzing_frameworks' = FALSE
    /\ selected_frameworks' = {}
    /\ pc' = "idle"
    /\ EndScriptRun
    /\ UNCHANGED <<runner, pyramid_analysis, state_framework_results, consolidated_report,
                   batches>>
    /\ UNCHANGED <<consVars, recVars, diagVars, execVars, agentVars>>

\* Future.cancel() on every future: only a pending one is cancelled.
CancelAll(fs) ==
    [f \in DOMAIN fs |->
        IF fs[f].state = "pending" THEN [fs[f] EXCEPT !.state = "cancelled"] ELSE fs[f]]

AfterYield(f) == IF yielded \cup {f} = selected_ids THEN "shutdown" ELSE "loop"

\* app.py 891-909: one iteration of the as_completed loop, for the finished
\* future f that as_completed hands out.
AppLoopStep(f) ==
    /\ pc = "loop"
    /\ runner = "app"
    /\ f \in Finished(selected_ids) \ yielded
    /\ IF cancel_framework_analysis
       THEN /\ cancelled' = TRUE
            /\ futures' = CancelAll(futures)
            /\ pc' = "shutdown"
            /\ UNCHANGED <<yielded, results, collected>>
       ELSE /\ yielded' = yielded \cup {f}
            /\ pc' = AfterYield(f)
            /\ IF futures[f].outcome.raised
               THEN UNCHANGED <<results, collected>>
               ELSE /\ results' = Append(results, futures[f].outcome.value)
                    /\ collected' = Append(collected, f)
            /\ UNCHANGED <<cancelled, futures>>
    /\ UNCHANGED <<runner, selected_ids, pyramid_analysis, cancel_framework_analysis,
                   analyzing_frameworks, selected_frameworks, state_framework_results,
                   consolidated_report, signalled_after, batches>>
    /\ UNCHANGED <<consVars, recVars, diagVars, execVars, agentVars>>

\* execute_frameworks_parallel 286-296: one iteration of its loop
LibLoopStep(f) ==
    /\ pc = "loop"
    /\ runner = "lib"
    /\ f \in Finished(selected_ids) \ yielded
    /\ yielded' = yielded \cup {f}
    /\ pc' = AfterYield(f)
    /\ results' = Append(results,
                         IF futures[f].outcome.raised
                         THEN FailurePlaceholder(f, futures[f].outcome.exception)
                         ELSE futures[f].outcome.value)
    /\ collected' = Append(collected, f)
    /\ UNCHANGED <<runner, selected_ids, pyramid_analysis, futures, cancelled,
                   cancel_framework_analysis, analyzing_frameworks, selected_frameworks,
                   state_framework_results, consolidated_report, signalled_after, batches>>
    /\ UNCHANGED <<consVars, recVars, diagVars, execVars, agentVars>>

\* Leaving the "with ThreadPoolExecutor" block: shutdown(wait=True) returns
\* when no submitted call is pending or running.
LeavePool ==
    /\ pc = "shutdown"
    /\ \A f \in selected_ids : futures[f].state \in {"finished", "cancelled"}
    /\ pc' = IF runner = "app" THEN "after_pool" ELSE "returned"
    /\ UNCHANGED <<runner, selected_ids, pyramid_analysis, futures, yielded, results,
                   collected, cancelled, cancel_framework_analysis, analyzing_frameworks,
                   selected_frameworks, state_framework_results, consolidated_report,
                   signalled_after, batches>>
    /\ UNCHANGED <<consVars, recVars, diagVars, execVars, agentVars>>

\* app.py 911-940: store the results, consolidate, clear the flags, rerun.
\* An exception of consolidate ends the script run before line 938.
AppFinish(response) ==
    /\ pc = "after_pool"
    /\ cancel_framework_analysis' = FALSE
    /\ state_framework_results' =
          IF Len(results) > 0 /\ ~cancelled
          THEN InputsAfter(results, pyramid_analysis, response) ELSE results
    /\ LET consolidated == consolidate(results, pyramid_analysis, response) IN
       IF Len(results) > 0 /\ ~cancelled /\ consolidated.raised
       THEN /\ pc' = "start"
            /\ UNCHANGED <<consolidated_report, analyzing_frameworks, selected_frameworks>>
       ELSE /\ consolidated_report' =
                  IF Len(results) > 0 /\ ~cancelled THEN Some(consolidated.value)
                  ELSE consolidated_report
            /\ analyzing_frameworks' = FALSE
            /\ selected_frameworks' = {}
            /\ pc' = "idle"
    /\ EndScriptRun
    /\ UNCHANGED <<runner, pyramid_analysis, batches>>
    /\ UNCHANGED <<consVars, recVars, diagVars, execVars, agentVars>>

Next ==
    \/ \E ids \in Batches : Apply(ids)
    \/ AppSubmit
    \/ \E ids \in Batches : LibSubmit(ids)
    \/ \E f \in IdPool : WorkerStart(f)
    \/ \E f \in IdPool : \E response \in RunnerResponses : WorkerFinish(f, response)
    \/ SignalCancel
    \/ PressCancel
    \/ \E f \in IdPool : AppLoopStep(f)
    \/ \E f \in IdPool : LibLoopStep(f)
    \/ LeavePool
    \/ \E response \in ConsolidationResponses : AppFinish(response)

Spec == RunnerInit /\ [][Next]_vars

-----------------------------------------------------------------------------
(* One call of FrameworkConsolidator.consolidate.                          *)

ConsInit ==
    /\ RunnerOff /\ RecOff /\ DiagOff /\ ExecOff /\ AgentsOff
    /\ c_pc = "called"
    /\ c_pyramid \in RunnerPyramids
    /\ c_framework_results \in ConsInputs(c_pyramid)
    /\ c_response \in ConsolidationResponses
    /\ c_after = c_framework_results
    /\ c_all_citations = <<>>
    /\ c_outcome = Raised("", NoReport)
    /\ c_inference_calls = 0

Consolidate ==
    /\ c_pc = "called"
    /\ c_outcome' = consolidate(c_framework_results, c_pyramid, c_response)
    /\ c_inference_calls' = ConsolidateInferenceCalls(c_framework_results, c_pyramid)
    /\ c_after' = InputsAfter(c_framework_results, c_pyramid, c_response)
    /\ c_pc' = "done"
    /\ UNCHANGED <<c_framework_results, c_pyramid, c_response, c_all_citations>>
    /\ UNCHANGED <<runnerVars, recVars, diagVars, execVars, agentVars>>

\* One call of _merge_citations on the list
MergeCitations ==
    /\ c_pc = "called"
    /\ c_all_citations' = _merge_citations(c_framework_results)
    /\ c_after' = MergeMutation(c_framework_results)
    /\ c_pc' = "merged"
    /\ UNCHANGED <<c_framework_results, c_pyramid, c_response, c_outcome,
                   c_inference_calls>>
    /\ UNCHANGED <<runnerVars, recVars, diagVars, execVars, agentVars>>

NextCons ==
    \/ Consolidate
    \/ MergeCitations

SpecCons == ConsInit /\ [][NextCons]_vars

-----------------------------------------------------------------------------
(* One call of FrameworkRecommender.recommend.                             *)

RecInit ==
    /\ RunnerOff /\ ConsOff /\ DiagOff /\ ExecOff /\ AgentsOff
    /\ r_pc = "called"
    /\ r_pyramid \in {[pyramid EXCEPT !.detected_signals = signals] :
                         pyramid \in RunnerPyramids, signals \in SignalLists}
    /\ r_response \in RecommenderResponses
    /\ r_outcome = Raised("", RecommenderObject(<<>>).result)
    /\ r_inference_calls = 0

Recommend ==
    /\ r_pc = "called"
    /\ r_outcome' = recommend(r_pyramid, r_response)
    /\ r_inference_calls' = RecommendInferenceCalls(r_pyramid)
    /\ r_pc' = "done"
    /\ UNCHANGED <<r_pyramid, r_response>>
    /\ UNCHANGED <<runnerVars, consVars, diagVars, execVars, agentVars>>

NextRec == Recommend

SpecRec == RecInit /\ [][NextRec]_vars

-----------------------------------------------------------------------------
(* One call of DiagnosisConsolidator.diagnose.                             *)

DiagInit ==
    /\ RunnerOff /\ ConsOff /\ RecOff /\ ExecOff /\ AgentsOff
    /\ d_pc = "called"
    /\ d_messages \in 0..MaxMessages
    /\ d_responses \in AllClassifierResponses
    /\ d_classified = NotClassified
    /\ d_consolidation \in DiagnosisResponses
    /\ d_outcome = Raised("", NoDiagnosis)
    /\ d_inference_calls = 0

\* diagnose 52-75: the default for a short conversation, else the four
\* classifiers in turn and the consolidation.
Diagnose ==
    /\ d_pc = "called"
    /\ LET classified ==
              IF d_messages < 2 THEN NotClassified
              ELSE [dimension \in Dimensions |-> classify(dimension, d_responses[dimension])]
       IN  /\ d_classified' = classified
           /\ d_outcome' = diagnose(d_messages, classified, d_consolidation)
    /\ d_inference_calls' = DiagnoseInferenceCalls(d_messages)
    /\ d_pc' = "done"
    /\ UNCHANGED <<d_messages, d_responses, d_consolidation>>
    /\ UNCHANGED <<runnerVars, consVars, recVars, execVars, agentVars>>

NextDiag == Diagnose

SpecDiag == DiagInit /\ [][NextDiag]_vars

-----------------------------------------------------------------------------
(* One call of FrameworkExecutor.execute.                                  *)

\* Ids execute is called with: the catalog, and the two ids the recommender's
\* fallback table names beyond it.
ExecIds == DOMAIN ALL_FRAMEWORKS \cup {cynefin, decision_trees}

ExecResponses ==
    RunnerResponses \cup ConsExecResponses
    \cup {[ErrorResponse("") EXCEPT !.kind = "non_object"]}

ExecInit ==
    /\ RunnerOff /\ ConsOff /\ RecOff /\ DiagOff /\ AgentsOff
    /\ e_pc = "called"
    /\ e_framework_id \in ExecIds
    /\ e_pyramid \in RunnerPyramids
    /\ e_response \in ExecResponses
    /\ e_outcome = Raised("", NoResult)
    /\ e_inference_calls = 0

Execute ==
    /\ e_pc = "called"
    /\ e_outcome' = execute(e_framework_id, e_pyramid, e_response)
    /\ e_inference_calls' = ExecuteInferenceCalls(e_framework_id, e_pyramid)
    /\ e_pc' = "done"
    /\ UNCHANGED <<e_framework_id, e_pyramid, e_response>>
    /\ UNCHANGED <<runnerVars, consVars, recVars, diagVars, agentVars>>

NextExec == Execute

SpecExec == ExecInit /\ [][NextExec]_vars

-----------------------------------------------------------------------------
(* One call of ResearchAgent.research, phase by phase.                      *)

ResInit ==
    /\ CoreOff /\ AnaOff /\ StreamOff /\ SessionOff
    /\ rs_pc = "called"
    /\ rs_api_key \in BOOLEAN
    /\ rs_responses \in [context : ContextResponses, queries : QueryResponses,
                          synthesis : SynthesisResponses]
    /\ rs_context = DefaultContext
    /\ rs_queries = <<>>
    /\ rs_search_results = <<>>
    /\ rs_external_calls = 0
    /\ rs_outcome = Raised("", NoSynthesis)

\* research 153
AnalyzeContext ==
    /\ rs_pc = "called"
    /\ rs_context' = _analyze_context(rs_responses.context)
    /\ rs_pc' = "analyzed"
    /\ UNCHANGED <<rs_api_key, rs_responses, rs_queries, rs_search_results,
                   rs_external_calls, rs_outcome>>
    /\ UNCHANGED <<runnerVars, consVars, recVars, diagVars, execVars, anaVars, streamVars, sessionVars>>

\* research 154; an exception of _generate_queries leaves research
GenerateQueries ==
    /\ rs_pc = "analyzed"
    /\ LET queries == _generate_queries(rs_context, rs_responses.queries) IN
       IF queries.raised
       THEN /\ rs_outcome' = Raised(queries.exception, NoSynthesis)
            /\ rs_pc' = "done"
            /\ UNCHANGED rs_queries
       ELSE /\ rs_queries' = queries.value
            /\ rs_pc' = "queried"
            /\ UNCHANGED rs_outcome
    /\ UNCHANGED <<rs_api_key, rs_responses, rs_context, rs_search_results,
                   rs_external_calls>>
    /\ UNCHANGED <<runnerVars, consVars, recVars, diagVars, execVars, anaVars, streamVars, sessionVars>>

\* research 157
ExecuteSearches ==
    /\ rs_pc = "queried"
    /\ \E responses \in [1..Len(rs_queries) -> SearchResponses] :
          rs_search_results' = _execute_searches(rs_api_key, rs_queries, responses)
    /\ rs_external_calls' = ExternalCalls(rs_api_key, rs_queries)
    /\ rs_pc' = "searched"
    /\ UNCHANGED <<rs_api_key, rs_responses, rs_context, rs_queries, rs_outcome>>
    /\ UNCHANGED <<runnerVars, consVars, recVars, diagVars, execVars, anaVars, streamVars, sessionVars>>

\* research 160-165
SynthesizeFindings ==
    /\ rs_pc = "searched"
    /\ rs_outcome' = _synthesize_findings(rs_context, rs_search_results,
                                          rs_responses.synthesis)
    /\ rs_pc' = "done"
    /\ UNCHANGED <<rs_api_key, rs_responses, rs_context, rs_queries, rs_search_results,
                   rs_external_calls>>
    /\ UNCHANGED <<runnerVars, consVars, recVars, diagVars, execVars, anaVars, streamVars, sessionVars>>

NextRes ==
    \/ AnalyzeContext
    \/ GenerateQueries
    \/ ExecuteSearches
    \/ SynthesizeFindings

SpecRes == ResInit /\ [][NextRes]_vars

-----------------------------------------------------------------------------
(* One call of MintoAnalyzer.analyze.                                       *)

AnaInit ==
    /\ CoreOff /\ ResOff /\ StreamOff /\ SessionOff
    /\ a_pc = "called"
    /\ a_conversation \in Conversations
    /\ a_response \in AnalysisResponses
    /\ a_outcome = NoAnalysisYet
    /\ a_inference_calls = 0

Analyze ==
    /\ a_pc = "called"
    /\ a_outcome' = analyze(a_conversation, a_response)
    /\ a_inference_calls' = AnalyzeInferenceCalls(a_conversation)
    /\ a_pc' = "done"
    /\ UNCHANGED <<a_conversation, a_response>>
    /\ UNCHANGED <<runnerVars, consVars, recVars, diagVars, execVars, resVars, streamVars, sessionVars>>

NextAna == Analyze

SpecAna == AnaInit /\ [][NextAna]_vars

-----------------------------------------------------------------------------
(* One run of StreamingPyramidAnalyzer.analyze_streaming, consumed to its   *)
(* end.                                                                     *)

StreamInit ==
    /\ CoreOff /\ ResOff /\ AnaOff /\ SessionOff
    /\ t_pc = "start"
    /\ t_responses \in [pyramid : PyramidStreams, framework : FrameworkStreams]
    /\ t_streamed = 0
    /\ t_pyramid = NoAnalysisYet
    /\ t_chunks = <<>>
    /\ t_final = [pyramid |-> NoAnalysisYet, frameworks |-> NoSelection]

\* The except branch of lines 192-194: the error chunk, then
\* pyramid_result.get, which raises out of the generator unless
\* pyramid_result is a dict by then
YieldError(pyramid_result) ==
    /\ t_chunks' = Append(t_chunks, StreamingChunk("error", FALSE))
    /\ t_pc' = IF pyramid_result.kind \in {"dict", "empty_dict"} THEN "done" ELSE "raised"

\* Lines 107-115: the first chunk, yielded before the try block
StartStreaming ==
    /\ t_pc = "start"
    /\ t_chunks' = Append(t_chunks, StreamingChunk("thinking", FALSE))
    /\ t_pc' = "pyramid_stream"
    /\ UNCHANGED <<t_responses, t_streamed, t_pyramid, t_final>>
    /\ UNCHANGED <<runnerVars, consVars, recVars, diagVars, execVars, resVars, anaVars,
                   sessionVars>>

\* Lines 122-128: one chunk of the pyramid stream, or the provider's failure
ReadPyramidChunk ==
    /\ t_pc = "pyramid_stream"
    /\ t_streamed < t_responses.pyramid.n_chunks
    /\ IF t_responses.pyramid.raises_at = t_streamed + 1
       THEN YieldError(NoAnalysisYet) /\ UNCHANGED t_streamed
       ELSE /\ t_chunks' = Append(t_chunks, StreamingChunk("thinking", FALSE))
            /\ t_streamed' = t_streamed + 1
            /\ UNCHANGED t_pc
    /\ UNCHANGED <<t_responses, t_pyramid, t_final>>
    /\ UNCHANGED <<runnerVars, consVars, recVars, diagVars, execVars, resVars, anaVars,
                   sessionVars>>

\* Lines 131-156: the parse, the scqa and signal chunks, the next thinking
\* chunk
ParsePyramid ==
    /\ t_pc = "pyramid_stream"
    /\ t_streamed = t_responses.pyramid.n_chunks
    /\ LET parsed == PyramidChunks(t_responses.pyramid.parsed) IN
       IF parsed.raised
       THEN YieldError(parsed.pyramid) /\ t_pyramid' = parsed.pyramid
       ELSE /\ t_chunks' = t_chunks \o parsed.chunks
                               \o <<StreamingChunk("thinking", FALSE)>>
            /\ t_pyramid' = parsed.pyramid
            /\ t_pc' = "parsed"
    /\ UNCHANGED <<t_responses, t_streamed, t_final>>
    /\ UNCHANGED <<runnerVars, consVars, recVars, diagVars, execVars, resVars, anaVars,
                   sessionVars>>

\* Lines 158-191: the second inference, the framework chunk and the complete
\* chunk
SelectFramework ==
    /\ t_pc = "parsed"
    /\ LET selected == FrameworkChunk(t_pyramid, t_responses.framework) IN
       IF selected.raised
       THEN YieldError(t_pyramid) /\ UNCHANGED t_final
       ELSE /\ t_chunks' = t_chunks \o <<StreamingChunk("framework", TRUE),
                                          StreamingChunk("complete", TRUE)>>
            /\ t_final' = [pyramid |-> t_pyramid, frameworks |-> selected.frameworks]
            /\ t_pc' = "done"
    /\ UNCHANGED <<t_responses, t_streamed, t_pyramid>>
    /\ UNCHANGED <<runnerVars, consVars, recVars, diagVars, execVars, resVars, anaVars,
                   sessionVars>>

NextStream ==
    \/ StartStreaming
    \/ ReadPyramidChunk
    \/ ParsePyramid
    \/ SelectFramework

\* The consumer reads the generator to its end
SpecStream == StreamInit /\ [][NextStream]_vars /\ WF_vars(NextStream)

-----------------------------------------------------------------------------
(* The script runs of src/app.py main() in one browser session: each action *)
(* is one run of the script, started by a user event or by st.rerun().      *)

\* Most messages of the conversation
MaxChat == 5

\* The locals of main() that are bound when a script run reaches the diagnose
\* call of a chat turn (lines 786-790 and 1005-1009): lines 277-286 and the
\* turn's own assignments.  result is assigned at line 901 only, in the batch
\* branch, and that branch ends its script run at line 940.
LocalsAtDiagnose ==
    {"client", "consolidator", "research_agent", "minto_analyzer", "framework_recommender",
     "framework_executor", "framework_consolidator", "prompt", "kb", "response_placeholder",
     "full_response", "citations", "active_persona", "stream"}

\* Evaluating the arguments of consolidator.diagnose(get_messages(),
\* st.session_state.full_diagnosis, result.get("citations", []))
DiagnoseArguments ==
    IF "result" \in LocalsAtDiagnose THEN Returned("arguments")
    ELSE Raised("UnboundLocalError", "arguments")

\* A handler above the position in the script takes the run (and ends it with
\* st.rerun() or an exception)
ResearchHandlerRuns == session_state.researching /\ client
PyramidHandlerRuns == session_state.pyramid_analyzing /\ client
FrameworkHandlerRuns == session_state.analyzing_frameworks /\ client

SessionInit ==
    /\ CoreOff /\ ResOff /\ AnaOff /\ StreamOff
    /\ client \in BOOLEAN
    /\ tavily_configured \in BOOLEAN
    /\ session_state = InitialSessionState
    /\ last_turn = NoTurn

\* Lines 730-800 (quick action) and 942-1024 (chat input): the user message,
\* the reply or the "not configured" message, then the diagnosis
ChatTurn(diagnose_raises) ==
    /\ ~ResearchHandlerRuns /\ ~PyramidHandlerRuns /\ ~FrameworkHandlerRuns
    /\ session_state.messages + 2 <= MaxChat
    /\ LET messages == session_state.messages + 2
           due == client /\ messages >= 2
           invoked == due /\ ~DiagnoseArguments.raised
           replaced == invoked /\ ~diagnose_raises
       IN  /\ session_state' =
                 [session_state EXCEPT
                    !.messages = messages,
                    !.full_diagnosis = IF replaced THEN "latest"
                                       ELSE IF @ = "none" THEN "none" ELSE "stale",
                    !.diagnosis_error =
                        IF ~due THEN @
                        ELSE IF DiagnoseArguments.raised THEN DiagnoseArguments.exception
                        ELSE IF diagnose_raises THEN "diagnose error" ELSE ""]
           /\ last_turn' = [due |-> due, diagnose_invoked |-> invoked, replaced |-> replaced]
    /\ UNCHANGED <<client, tavily_configured>>
    /\ UNCHANGED <<runnerVars, consVars, recVars, diagVars, execVars, resVars, anaVars,
                   streamVars>>

\* Lines 385-400: the research button
PressResearch ==
    /\ session_state.messages >= 2
    /\ tavily_configured
    /\ ~session_state.researching
    /\ session_state' = [session_state EXCEPT !.researching = TRUE]
    /\ UNCHANGED <<client, tavily_configured, last_turn>>
    /\ UNCHANGED <<runnerVars, consVars, recVars, diagVars, execVars, resVars, anaVars,
                   streamVars>>

\* Lines 528-569: the research handler; an exception of research() ends the
\* script run before line 568
ResearchRun(research_raises) ==
    /\ ResearchHandlerRuns
    /\ session_state' =
          IF research_raises THEN session_state
          ELSE [session_state EXCEPT !.researching = FALSE,
                                     !.has_researched = TRUE,
                                     !.messages = IF @ < MaxChat THEN @ + 1 ELSE @]
    /\ UNCHANGED <<client, tavily_configured, last_turn>>
    /\ UNCHANGED <<runnerVars, consVars, recVars, diagVars, execVars, resVars, anaVars,
                   streamVars>>

\* Lines 414-427: the pyramid analysis button
PressPyramid ==
    /\ session_state.messages >= 2
    /\ ~session_state.pyramid_analyzing
    /\ session_state' = [session_state EXCEPT !.pyramid_analyzing = TRUE]
    /\ UNCHANGED <<client, tavily_configured, last_turn>>
    /\ UNCHANGED <<runnerVars, consVars, recVars, diagVars, execVars, resVars, anaVars,
                   streamVars>>

\* Lines 572-688: the pyramid handler; an exception of analyze() is caught
\* (613-622), one of recommend() ends the script run before line 687
PyramidRun(analyze_raises, recommend_raises) ==
    /\ ~ResearchHandlerRuns
    /\ PyramidHandlerRuns
    /\ session_state' =
          IF analyze_raises
          THEN [session_state EXCEPT !.pyramid_analyzing = FALSE]
          ELSE IF recommend_raises
          THEN [session_state EXCEPT !.pyramid_analysis = TRUE]
          ELSE [session_state EXCEPT !.pyramid_analysis = TRUE,
                                     !.framework_recommendations = TRUE,
                                     !.messages = IF @ < MaxChat THEN @ + 1 ELSE @,
                                     !.pyramid_analyzing = FALSE]
    /\ UNCHANGED <<client, tavily_configured, last_turn>>
    /\ UNCHANGED <<runnerVars, consVars, recVars, diagVars, execVars, resVars, anaVars,
                   streamVars>>

\* Lines 835-851: Apply in the framework selector
ApplyFrameworks ==
    /\ ~ResearchHandlerRuns /\ ~PyramidHandlerRuns
    /\ ~session_state.consolidated_report
    /\ session_state.framework_recommendations
    /\ session_state.messages > 0
    /\ ~session_state.analyzing_frameworks
    /\ session_state' = [session_state EXCEPT !.analyzing_frameworks = TRUE]
    /\ UNCHANGED <<client, tavily_configured, last_turn>>
    /\ UNCHANGED <<runnerVars, consVars, recVars, diagVars, execVars, resVars, anaVars,
                   streamVars>>

\* Lines 854-940: the batch handler; an exception of consolidate() ends the
\* script run before line 938
FrameworkRun(consolidate_raises) ==
    /\ ~ResearchHandlerRuns /\ ~PyramidHandlerRuns
    /\ FrameworkHandlerRuns
    /\ session_state' =
          IF consolidate_raises THEN session_state
          ELSE [session_state EXCEPT !.consolidated_report = TRUE,
                                     !.analyzing_frameworks = FALSE]
    /\ UNCHANGED <<client, tavily_configured, last_turn>>
    /\ UNCHANGED <<runnerVars, consVars, recVars, diagVars, execVars, resVars, anaVars,
                   streamVars>>

\* Lines 824-831: Continue Conversation under the consolidated report
ContinueConversation ==
    /\ ~ResearchHandlerRuns /\ ~PyramidHandlerRuns
    /\ session_state.consolidated_report
    /\ session_state' = [session_state EXCEPT !.consolidated_report = FALSE]
    /\ UNCHANGED <<client, tavily_configured, last_turn>>
    /\ UNCHANGED <<runnerVars, consVars, recVars, diagVars, execVars, resVars, anaVars,
                   streamVars>>

\* Lines 461-468 and clear_session
ClearSession ==
    /\ session_state.messages > 0
    /\ session_state' = [InitialSessionState EXCEPT
                            !.diagnosis_error = session_state.diagnosis_error]
    /\ UNCHANGED <<client, tavily_configured, last_turn>>
    /\ UNCHANGED <<runnerVars, consVars, recVars, diagVars, execVars, resVars, anaVars,
                   streamVars>>

\* What the script does by itself once a flag is set
Handlers ==
    \/ \E research_raises \in BOOLEAN : ResearchRun(research_raises)
    \/ \E analyze_raises, recommend_raises \in BOOLEAN :
          PyramidRun(analyze_raises, recommend_raises)
    \/ \E consolidate_raises \in BOOLEAN : FrameworkRun(consolidate_raises)

NextSession ==
    \/ \E diagnose_raises \in BOOLEAN : ChatTurn(diagnose_raises)
    \/ PressResearch
    \/ PressPyramid
    \/ ApplyFrameworks
    \/ ContinueConversation
    \/ ClearSession
    \/ Handlers

\* A handler whose flag is set runs in the next script run; the user's events
\* are not owed.
SpecSession == SessionInit /\ [][NextSession]_vars /\ WF_vars(Handlers)

-----------------------------------------------------------------------------
(* Properties of the batch.                                                *)

\* The runner has left the pool and holds its final result list.
BatchOver == pc \in {"after_pool", "returned"}

\* The requested ids whose call contributed an entry of results.
CollectedIds == {collected[i] : i \in 1..Len(collected)}

ResultsOf(f) == {i \in 1..Len(collected) : collected[i] = f}

\* C1: a batch that finishes without cancellation holds exactly one result
\* per requested id (a placeholder for a call that raised), whatever the order
\* of completion, in execute_frameworks_parallel and in the loop of app.py.
C1_OneResultPerRequestedId ==
    (BatchOver /\ ~cancelled) =>
        /\ \A f \in selected_ids : Cardinality(ResultsOf(f)) = 1
        /\ Len(results) = Cardinality(selected_ids)

\* C2: every result execute returns for an id of the catalog carries that id
\* as its framework_id, on the inference path and on the fallback path.
C2_ResultCarriesRequestedId ==
    \A f \in selected_ids :
        ( /\ futures[f].state = "finished"
          /\ ~futures[f].outcome.raised
          /\ f \in DOMAIN ALL_FRAMEWORKS )
        => futures[f].outcome.value.framework_id = f

\* C3: when cancellation is signalled after k calls have finished, the runner
\* of app.py ends with exactly the results of those k calls and the partial
\* flag set.
C3_CancelledBatchKeepsCompleted ==
    (pc = "after_pool" /\ signalled_after # None) =>
        /\ cancelled
        /\ CollectedIds = signalled_after[1]
        /\ Len(results) = Cardinality(signalled_after[1])

\* C4: once the loop has observed the cancellation flag the runner can return
\* at once: leaving the pool does not wait for the calls still in flight.
C4_ReturnsWithoutWaiting ==
    (pc = "shutdown" /\ cancelled) => ENABLED LeavePool

-----------------------------------------------------------------------------
(* Properties of consolidate.                                              *)

\* The synthesis inference failed or gave something that is not a report.
SynthesisFailed == c_response.kind \in {"error", "non_object"}

\* C5: for every result list the executor or the runner can produce,
\* consolidate does not raise and returns a report; with two or more results
\* and a failed synthesis the report carries the triggering error.
C5_ConsolidateNeverRaises ==
    (c_pc = "done") =>
        /\ ~c_outcome.raised
        /\ c_outcome.value.has_consolidated_report
        /\ (Len(c_framework_results) >= 2 /\ SynthesisFailed)
              => c_outcome.value._error # None

SeqRange(q) == {q[i] : i \in 1..Len(q)}

\* The titles of the citations of the inputs, and the ids of the results
\* that hold a citation of a title.
InputTitles ==
    UNION {{c_framework_results[i].citations[j].title :
              j \in 1..Len(c_framework_results[i].citations)} :
           i \in 1..Len(c_framework_results)}

Contributors(title) ==
    {c_framework_results[i].framework_id :
        i \in {k \in 1..Len(c_framework_results) :
                 \E j \in 1..Len(c_framework_results[k].citations) :
                    c_framework_results[k].citations[j].title = title}}

\* The merged entries, as a set, used_by_frameworks being a set too
Entries(all_citations) ==
    {[title |-> all_citations[i].title, text |-> all_citations[i].text,
      used_by |-> SeqRange(GetOr(all_citations[i].used_by_frameworks, <<>>))] :
        i \in 1..Len(all_citations)}

Reorderings(q) ==
    {[i \in 1..Len(q) |-> q[p[i]]] :
        p \in {f \in [1..Len(q) -> 1..Len(q)] : \A i, j \in 1..Len(q) : f[i] = f[j] => i = j}}

TitleEntries(all_citations) ==
    {[title |-> entry.title, used_by |-> entry.used_by] : entry \in Entries(all_citations)}

\* The text of the first citation of a title, in the order of the inputs
FirstText(title) ==
    LET visits == CitationVisits(c_framework_results)
        first  == CHOOSE k \in 1..Len(visits) :
                     /\ visits[k].citation.title = title
                     /\ \A j \in 1..(k-1) : visits[j].citation.title # title
    IN  visits[first].citation.text

C7_SingleResultPassThrough ==
    (c_pc = "done" /\ Len(c_framework_results) = 1) =>
        LET analysis == c_framework_results[1].framework_analysis
            report   == c_outcome.value
        IN
        /\ ~c_outcome.raised
        /\ \A response \in ConsolidationResponses :
              consolidate(c_framework_results, c_pyramid, response) = c_outcome
        /\ [i \in 1..Len(report.top_insights) |-> report.top_insights[i].insight]
              = analysis.insights
        /\ [i \in 1..Len(report.opportunities) |-> report.opportunities[i].opportunity]
              = analysis.opportunities
        /\ [i \in 1..Len(report.risks_and_gaps) |-> report.risks_and_gaps[i].risk_or_gap]
              = analysis.risks_or_gaps
        /\ report.convergence_points = <<>>
        /\ report.divergence_points = <<>>
        /\ analysis.recommended_next_steps # <<>>
              => report.unified_recommendation.step = analysis.recommended_next_steps[1]

-----------------------------------------------------------------------------
(* Properties of recommend.                                                *)

RecommendedIds ==
    [i \in 1..Len(r_outcome.value.recommended_frameworks) |->
        r_outcome.value.recommended_frameworks[i].framework_id]

\* C8: for a context analysis with at least one detected signal recommend
\* returns 3 to 7 recommendations, with pairwise distinct framework ids that
\* are all in the catalog.
C8_ThreeToSevenCatalogIds ==
    (r_pc = "done" /\ Len(r_pyramid.detected_signals) >= 1) =>
        /\ ~r_outcome.raised
        /\ Len(RecommendedIds) >= 3
        /\ Len(RecommendedIds) <= 7
        /\ Cardinality(SeqRange(RecommendedIds)) = Len(RecommendedIds)
        /\ SeqRange(RecommendedIds) \subseteq DOMAIN ALL_FRAMEWORKS

-----------------------------------------------------------------------------
(* Properties of diagnose.                                                 *)

\* The row of the decision table for the levels of the classifier outputs
TableRow ==
    ProfileRow(GetOr(d_classified["definition"].level, "undefined"),
               GetOr(d_classified["complexity"].level, "complex"),
               GetOr(d_classified["wickedness"].level, "messy"))

ClassifiersGaveDicts == \A dimension \in Dimensions : d_classified[dimension].kind = "dict"

\* C9: the profile name and the recommended approach diagnose returns are
\* those of the decision table row of the four classifier outputs, whatever
\* the consolidation inference gives.
C9_ProfileFromDecisionTable ==
    (d_pc = "done" /\ d_messages >= 2 /\ ClassifiersGaveDicts) =>
        /\ ~d_outcome.raised
        /\ d_outcome.value.profile # None
        /\ d_outcome.value.profile[1].name = TableRow.name
        /\ d_outcome.value.profile[1].recommended_approach = TableRow.approach

\* C10: for a conversation of two or more messages diagnose returns, whatever
\* the classifier and consolidation inferences give, a result with a profile,
\* a research recommendation and the ui updates.
C10_DiagnosisAlwaysComplete ==
    (d_pc = "done" /\ d_messages >= 2) =>
        /\ ~d_outcome.raised
        /\ d_outcome.value.profile # None
        /\ d_outcome.value.research # None
        /\ d_outcome.value.ui_updates # None

-----------------------------------------------------------------------------
(* Properties of execute.                                                  *)

\* The inference call of the finished execute was made and failed.
InferenceFailed ==
    /\ e_pc = "done"
    /\ e_inference_calls = 1
    /\ e_response.kind \in {"error", "non_object"}

\* The fallback analysis but for its answered key questions
FallbackShape(questions) ==
    LET framework == ALL_FRAMEWORKS[e_framework_id]
        analysis  == e_outcome.value.framework_analysis
    IN  /\ ~e_outcome.raised
        /\ analysis.kind = "dict"
        /\ [i \in 1..Len(analysis.key_questions_answered) |->
               analysis.key_questions_answered[i].question] = questions
        /\ \A i \in 1..Len(analysis.key_questions_answered) :
               analysis.key_questions_answered[i].answer
                  = "Analysis pending - requires deeper exploration"
        /\ analysis.framework_output
              = [k \in 1..framework.n_output_structure |-> "To be determined"]
        /\ e_outcome.value.confidence_level = Some(4)
        /\ e_outcome.value._error # None
        /\ e_response.kind = "error" => e_outcome.value._error = Some(e_response.exception)

\* C11: when the inference call of execute fails, execute does not raise and
\* returns a fallback analysis that answers every key question of the
\* framework with a placeholder, fills every key of output_structure with
\* "To be determined", has confidence 0.4 and carries the error.
C11_FallbackAnswersEveryKeyQuestion ==
    InferenceFailed => FallbackShape(key_questions(ALL_FRAMEWORKS[e_framework_id]))

\* C11 as amended: the fallback analysis answers the first three key questions
\* of the framework with a placeholder; the rest is as claimed.
C11_FallbackAnswersFirstThreeKeyQuestions ==
    InferenceFailed => FallbackShape(Take(key_questions(ALL_FRAMEWORKS[e_framework_id]), 3))

\* A failed inference for a framework with more than three key questions
C11_FallbackReturned ==
    /\ InferenceFailed
    /\ ALL_FRAMEWORKS[e_framework_id].n_key_questions > 3
    /\ e_outcome.value._error = Some("api error")

\* C12: execute with an id that is not in the catalog makes no inference
\* call, does not raise and returns the not-found result: no analysis, an
\* error that names the id, and none of the marks of the failure fallback.
C12_NotFoundResult ==
    (e_pc = "done" /\ e_framework_id \notin DOMAIN ALL_FRAMEWORKS) =>
        /\ e_inference_calls = 0
        /\ ~e_outcome.raised
        /\ e_outcome.value.framework_analysis.kind = "none"
        /\ e_outcome.value.error # None
        /\ e_outcome.value.error[1].id = e_framework_id
        /\ e_outcome.value._error = None
        /\ e_outcome.value.confidence_level = None
        /\ \A framework_id \in DOMAIN ALL_FRAMEWORKS : \A e \in {"", "api error"} :
              e_outcome.value # _fallback_execution(ALL_FRAMEWORKS[framework_id], e)

\* execute has returned for an id the catalog does not hold
C12_UnknownIdExecuted ==
    /\ e_pc = "done"
    /\ e_framework_id = cynefin
    /\ e_outcome.value.framework_id = error_id

-----------------------------------------------------------------------------
(* Properties of the recommendations' content.                              *)

\* The inference of the recommend call was made and gave no usable object
RecommenderInferenceFailed ==
    /\ r_pc = "done"
    /\ r_inference_calls = 1
    /\ r_response.kind \in {"error", "non_object"}

\* C13: every recommendation recommend returns, from the inference path as
\* well as from the fallback path, carries the full template data of its
\* framework: title, definition, key questions, output structure and
\* required concepts.
C13_RecommendationsCarryFullTemplate ==
    (r_pc = "done" /\ ~r_outcome.raised) =>
        \A i \in DOMAIN r_outcome.value.recommended_frameworks :
            LET rec == r_outcome.value.recommended_frameworks[i] IN
            /\ rec.framework_id \in DOMAIN ALL_FRAMEWORKS
            /\ rec.full_data = Some(FullData(ALL_FRAMEWORKS[rec.framework_id]))

-----------------------------------------------------------------------------
(* Properties of the four classifiers, as diagnose runs them.               *)

\* diagnose ran the four classifiers
ClassifiersRan == d_pc = "done" /\ d_messages >= 2

\* C15: every result a classifier returns, on the success path as well as on
\* the fallback path, has a label from the fixed enum of its dimension.
C15_LabelInEnum ==
    ClassifiersRan =>
        \A dimension \in Dimensions :
            /\ d_classified[dimension].kind = "dict"
            /\ d_classified[dimension].level # None
            /\ d_classified[dimension].level[1] \in LevelEnum(dimension)

\* The safe label of each dimension
SafeLevel ==
    [dimension \in Dimensions |->
        CASE dimension = "definition" -> "undefined"
          [] dimension = "complexity" -> "complex"
          [] dimension = "risk_uncertainty" -> "balanced"
          [] OTHER -> "messy"]

\* C16: when the inference call of a classifier raises or returns unparsable
\* text, the classifier returns its fixed safe default (definition undefined;
\* complexity complex; risk-uncertainty position 0.5 with label balanced;
\* wickedness messy with no characteristics) with confidence 0.3 and the
\* error message in reasoning.
C16_FailureGivesSafeDefault ==
    ClassifiersRan =>
        \A dimension \in Dimensions :
            d_responses[dimension].kind = "error" =>
                LET result == d_classified[dimension] IN
                /\ result.kind = "dict"
                /\ result.level = Some(SafeLevel[dimension])
                /\ result.confidence = Some(3)
                /\ dimension = "risk_uncertainty" => result.position = Some(5)
                /\ dimension = "wickedness" => result.n_wicked_characteristics = 0
                /\ \E i \in DOMAIN result.reasoning :
                        result.reasoning[i] = d_responses[dimension].exception

C16_ClassifierFailed ==
    /\ ClassifiersRan
    /\ d_responses["wickedness"].kind = "error"
    /\ d_responses["wickedness"].exception = "JSONDecodeError"
    /\ d_responses["risk_uncertainty"].kind = "error"
    /\ d_responses["definition"].kind = "object"
    /\ d_classified["wickedness"].level = Some("messy")

-----------------------------------------------------------------------------
(* Properties of the rule-based consolidation of diagnose.                  *)

\* The consolidation inference gave no object, and the classifier outputs are
\* dicts: the rule-based consolidation made the result.
RuleBasedConsolidation ==
    /\ ClassifiersRan
    /\ d_consolidation.kind \in {"error", "non_object"}
    /\ ClassifiersGaveDicts

\* The labels the rule-based consolidation works on
DefinitionLabel == GetOr(d_classified["definition"].level, "undefined")
ComplexityLabel == GetOr(d_classified["complexity"].level, "complex")
WickednessLabel == GetOr(d_classified["wickedness"].level, "messy")

\* The rows of the table, in order, with whether each matches the labels
Rows ==
    << [matches |-> DefinitionLabel = "undefined" /\ ComplexityLabel \in {"complex", "chaotic"},
        name |-> "Early Exploration", approach |-> "Sense-making"],
       [matches |-> DefinitionLabel = "well-defined" /\ ComplexityLabel = "simple",
        name |-> "Ready to Execute", approach |-> "Execution"],
       [matches |-> DefinitionLabel = "ill-defined" /\ ComplexityLabel = "complicated",
        name |-> "Needs Analysis", approach |-> "Analysis"],
       [matches |-> WickednessLabel \in {"complex", "wicked"},
        name |-> "Systemic Challenge", approach |-> "Experimentation"],
       [matches |-> TRUE,
        name |-> "Innovation Challenge", approach |-> "Analysis"] >>

FirstMatchingRow ==
    Rows[CHOOSE i \in DOMAIN Rows :
            Rows[i].matches /\ \A j \in 1..(i-1) : ~Rows[j].matches]

UrgencyRank == [urgency \in {"low", "medium", "high"} |->
                  CASE urgency = "low" -> 1 [] urgency = "medium" -> 2 [] OTHER -> 3]

\* C18: in the result of the consolidation step of diagnose,
\* research.recommended is true exactly when the definition label is undefined
\* or the wickedness label is complex or wicked, and the urgency is higher
\* when the definition label is undefined than when it is not.
C18_ResearchFromLabels ==
    (ClassifiersRan /\ ClassifiersGaveDicts) =>
        /\ ~d_outcome.raised
        /\ d_outcome.value.research # None
        /\ d_outcome.value.research[1].recommended
              = (DefinitionLabel = "undefined" \/ WickednessLabel \in {"complex", "wicked"})
        /\ (DefinitionLabel = "undefined")
              <=> (UrgencyRank[d_outcome.value.research[1].urgency] > UrgencyRank["low"])

\* C19: diagnose called with a conversation of fewer than 2 messages returns
\* the 'Just Starting' default profile as a normal result, and invokes none
\* of the four classifiers and no consolidation inference.
C19_ShortConversationDefault ==
    (d_pc = "done" /\ d_messages < 2) =>
        /\ ~d_outcome.raised
        /\ d_outcome.value.profile # None
        /\ d_outcome.value.profile[1].name = "Just Starting"
        /\ d_outcome.value.research = Some(Research(FALSE, "low"))
        /\ d_outcome.value.ui_updates # None
        /\ d_inference_calls = 0
        /\ \A dimension \in Dimensions : d_classified[dimension].kind = "not_run"

C19_OneMessageDiagnosed ==
    /\ d_pc = "done"
    /\ d_messages = 1
    /\ d_consolidation.kind = "object"
    /\ d_consolidation.result.profile # None
    /\ d_responses["definition"].kind = "object"
    /\ d_outcome.value.profile[1].name = "Just Starting"

-----------------------------------------------------------------------------
(* Properties of the fallback consolidation of framework results.           *)

\* The content of a report, each list read as a set
ReportContent(report) ==
    [top_insights |-> SeqRange(report.top_insights),
     opportunities |-> SeqRange(report.opportunities),
     risks_and_gaps |-> SeqRange(report.risks_and_gaps),
     framework_contributions |-> SeqRange(report.framework_contributions),
     all_citations |-> Entries(report.all_citations)]

\* C20: the content of the report does not depend on the order of the input
\* results: with the synthesis inference failing in the same way, every
\* permutation of a list of two or more framework results gives the same
\* sets of top insights, opportunities, risks, framework contributions and
\* citations.
C20_FallbackOrderIndependent ==
    (c_pc = "done" /\ Len(c_framework_results) >= 2 /\ SynthesisFailed) =>
        \A reordered \in Reorderings(c_framework_results) :
            LET other == consolidate(reordered, c_pyramid, c_response) IN
            /\ other.raised = c_outcome.raised
            /\ ~c_outcome.raised =>
                  ReportContent(other.value) = ReportContent(c_outcome.value)

\* C21: consolidate leaves its inputs unchanged: after the call every
\* framework result that was passed in, with each citation entry inside it,
\* is equal to what it was before the call.
C21_InputsUnchanged ==
    (c_pc = "done") => c_after = c_framework_results

\* C26: consolidate called with an empty result list makes no inference call
\* and returns the canonical empty report: frameworks_used is 0, there are no
\* insights, and unified_recommendation is the fixed 'select frameworks'
\* string.
C26_EmptyListGivesEmptyReport ==
    (c_pc = "done" /\ c_framework_results = <<>>) =>
        /\ ~c_outcome.raised
        /\ c_inference_calls = 0
        /\ c_outcome.value.has_consolidated_report
        /\ c_outcome.value.frameworks_used = 0
        /\ c_outcome.value.top_insights = <<>>
        /\ c_outcome.value.total_insights = 0
        /\ c_outcome.value.unified_recommendation.text
              = "Select one or more frameworks to analyze your problem."

C26_EmptyListConsolidated ==
    /\ c_pc = "done"
    /\ c_framework_results = <<>>
    /\ c_response.kind = "object"
    /\ c_outcome.value.framework_contributions = <<>>
    /\ c_outcome.value._error = None

-----------------------------------------------------------------------------
(* Properties of research.                                                  *)

\* C22: research never raises: each of its three phases absorbs its own
\* failure and the following phase still runs, so for every behaviour of the
\* inference provider and every response of the search provider research
\* returns a synthesis object.
C22_ResearchNeverRaises ==
    (rs_pc = "done") =>
        /\ ~rs_outcome.raised
        /\ rs_outcome.value.kind = "dict"

\* The searches of the research call have been executed
SearchesExecuted == rs_pc \in {"searched", "done"}

\* C23: when the search provider has no credentials, executing the searches
\* performs no external call and returns, for every generated query, exactly
\* one entry that carries the 'not configured' error marker, which
\* distinguishes it from a successful search with zero results.
C23_NotConfiguredMarker ==
    (SearchesExecuted /\ ~rs_api_key) =>
        /\ rs_external_calls = 0
        /\ Len(rs_search_results) = Len(rs_queries)
        /\ \A i \in 1..Len(rs_queries) :
              /\ rs_search_results[i].query = rs_queries[i]
              /\ rs_search_results[i].results = <<>>
              /\ rs_search_results[i].error = Some("Tavily API key not configured")
              /\ \A response \in {r \in SearchResponses : r.kind = "ok"} :
                    rs_search_results[i] # SearchEntry(rs_queries[i], response)

C23_UnconfiguredSearchDone ==
    /\ rs_pc = "searched"
    /\ ~rs_api_key
    /\ Len(rs_queries) = 5
    /\ Len(rs_search_results) = 5
    /\ rs_search_results[5].error # None

-----------------------------------------------------------------------------
(* Properties of the context analyzers.                                     *)

\* The last user message of the analyzed conversation, if there is one
LastUserContent ==
    LET users == {i \in 1..Len(a_conversation) : a_conversation[i].role = "user"} IN
    IF users = {} THEN <<>>
    ELSE a_conversation[CHOOSE i \in users : \A j \in users : j <= i].content

\* C24: when the context analysis inference raises or returns unparsable
\* text, analyze returns a fallback analysis whose four SCQA fields are all
\* filled, whose question is taken from the last user message, and which is
\* tagged with the error.
C24_FallbackAnalysisFilled ==
    (a_pc = "done" /\ a_inference_calls = 1 /\ a_response.kind = "error") =>
        /\ a_outcome.kind = "dict"
        /\ a_outcome.scqa.kind = "dict"
        /\ a_outcome.scqa.situation # ""
        /\ a_outcome.scqa.complication # ""
        /\ a_outcome.scqa.question # <<>>
        /\ a_outcome.scqa.answer_direction # ""
        /\ LastUserContent # <<>> => a_outcome.scqa.question = LastUserContent
        /\ a_outcome._error = Some(a_response.exception)

C24_FallbackFromLastUserMessage ==
    /\ a_pc = "done"
    /\ a_response.kind = "error"
    /\ Len(a_conversation) = 3
    /\ a_conversation[2].role = "user" /\ a_conversation[2].content = <<"h", "i">>
    /\ a_conversation[3].role = "assistant"
    /\ a_outcome.scqa.question = <<"h", "i">>

\* The signals FrameworkRecommender._fallback_recommendations reads from a
\* pyramid (line 191)
SignalsReadByRecommender(pyramid) == GetOr(pyramid.detected_signals, <<>>)

\* The signals an analysis holds, under either name
SignalsHeld(pyramid) ==
    IF pyramid.detected_signals # None THEN pyramid.detected_signals[1]
    ELSE GetOr(pyramid.signals, <<>>)

\* C25: the analysis the fast analyzer completes with has the fields of the
\* full analysis (scqa, detected_signals, primary_signal), and the recommender
\* reads from it the signals the analysis holds.
C25_FastAnalysisReadAlike ==
    (t_pc = "done" /\ t_chunks[Len(t_chunks)].type = "complete")
        => /\ t_final.pyramid.detected_signals # None
           /\ SignalsReadByRecommender(t_final.pyramid) = SignalsHeld(t_final.pyramid)

TerminalTypes == {"complete", "error"}

\* The positions of the chunks of one type
Positions(type) == { i \in 1..Len(t_chunks) : t_chunks[i].type = type }

C27_CancelledOnlyWhenRequested ==
    (runner = "app" /\ cancelled) => signalled_after # None

\* C28: after a chat turn that leaves at least 2 messages while an inference
\* client is configured, diagnose has been invoked and the stored diagnosis is
\* the one of that turn.
C28_ChatTurnDiagnoses ==
    last_turn.due => last_turn.diagnose_invoked /\ last_turn.replaced

\* C29: each in-progress flag that is set is cleared again later, whether or
\* not an inference client is configured.
C29_FlagsEventuallyCleared ==
    /\ session_state.researching ~> ~session_state.researching
    /\ session_state.pyramid_analyzing ~> ~session_state.pyramid_analyzing
    /\ session_state.analyzing_frameworks ~> ~session_state.analyzing_frameworks

====
